---- MODULE Spec2Model ----
(***************************************************************************)
(* A state-machine model of the evolvedominion rules engine                *)
(* (src/evolvedominion/engine/engine.py): zones of Piece instances, the    *)
(* State counters, Effects / Processes / Consequences, the Decision        *)
(* catalogue and the resolution loop.  Nested calls of resolve are kept on *)
(* an explicit agenda (the call stack of enact / Process.__call__).        *)
(***************************************************************************)
EXTENDS Integers, Sequences, FiniteSets, TLC

(***************************************************************************)
(* Bounds of the model.                                                    *)
(***************************************************************************)
\* number of players seated at the table
NPlayers == 3
\* number of copies in a stocked Supply pile
PileSize == 2
\* cap of the ghost counter of main-loop iterations of one Process
MaxIters == 4

Players == 0 .. (NPlayers - 1)

(***************************************************************************)
(* Generic helpers on sequences.                                           *)
(***************************************************************************)
Min(a, b) == IF a <= b THEN a ELSE b

Range(s) == {s[i] : i \in DOMAIN s}

Last(s) == s[Len(s)]

Front(s) == SubSeq(s, 1, Len(s) - 1)

RECURSIVE Reverse(_)
Reverse(s) == IF s = <<>> THEN <<>> ELSE Append(Reverse(Tail(s)), Head(s))

RemoveAt(s, i) == SubSeq(s, 1, i - 1) \o SubSeq(s, i + 1, Len(s))

\* list.index(x): position of the first element equal to x, 0 when absent
IndexOf(s, x) ==
    IF \E i \in DOMAIN s : s[i] = x
    THEN CHOOSE i \in DOMAIN s : s[i] = x /\ \A j \in 1 .. (i - 1) : s[j] # x
    ELSE 0

\* every ordering of the elements of s (the outcomes of a shuffle)
RECURSIVE Orderings(_)
Orderings(s) ==
    IF s = <<>> THEN {<<>>}
    ELSE UNION {{<<s[i]>> \o t : t \in Orderings(RemoveAt(s, i))} : i \in DOMAIN s}

RECURSIVE Flatten(_)
Flatten(ss) == IF ss = <<>> THEN <<>> ELSE Head(ss) \o Flatten(Tail(ss))

RECURSIVE SumSeq(_)
SumSeq(s) == IF s = <<>> THEN 0 ELSE Head(s) + SumSeq(Tail(s))

(***************************************************************************)
(* Pieces.  A Piece instance is a type together with an identity; two      *)
(* copies of one type differ in id only.                                   *)
(***************************************************************************)
Piece(t, i) == [type |-> t, id |-> i]

NoPiece == [type |-> "None", id |-> 0]

\* the card catalogue, in total_order_index order (index 0 first)
PieceTypes ==
    << "Curse", "Estate", "Duchy", "Province", "Copper", "Silver", "Gold",
       "Moat", "Village", "Militia", "Vassal", "Bureaucrat", "Bandit",
       "Library", "Witch", "Cellar", "Chapel", "Harbinger", "Workshop",
       "Moneylender", "Poacher", "Remodel", "ThroneRoom", "CouncilRoom",
       "Mine", "Sentry", "Artisan" >>

\* a card outside the Supply whose simple_effects are [+1 action, draw 1] and
\* whose decision is None
Cantrip == "Cantrip"

\* the card that adds 1 to merchant_silver_bonus when played; it is outside
\* the Supply here
Merchant == "Merchant"

total_order_index(t) == IndexOf(PieceTypes, t) - 1

cost(t) ==
    CASE t = "Curse" -> 0 [] t = "Estate" -> 2 [] t = "Duchy" -> 5
      [] t = "Province" -> 8 [] t = "Copper" -> 0 [] t = "Silver" -> 3
      [] t = "Gold" -> 6 [] t = "Moat" -> 2 [] t = "Village" -> 3
      [] t = "Militia" -> 4 [] t = "Vassal" -> 3 [] t = "Bureaucrat" -> 4
      [] t = "Bandit" -> 5 [] t = "Library" -> 5 [] t = "Witch" -> 5
      [] t = "Cellar" -> 2 [] t = "Chapel" -> 2 [] t = "Harbinger" -> 3
      [] t = "Workshop" -> 3 [] t = "Moneylender" -> 4 [] t = "Poacher" -> 4
      [] t = "Remodel" -> 4 [] t = "ThroneRoom" -> 4 [] t = "CouncilRoom" -> 5
      [] t = "Mine" -> 5 [] t = "Sentry" -> 5 [] t = "Artisan" -> 6
      [] OTHER -> 0

is_treasure(t) == t \in {"Copper", "Silver", "Gold"}

is_victory(t) == t \in {"Estate", "Duchy", "Province"}

is_province(t) == t = "Province"

is_action(t) ==
    t \in {"Moat", "Village", "Militia", "Vassal", "Bureaucrat", "Bandit",
           "Library", "Witch", "Cellar", "Chapel", "Harbinger", "Workshop",
           "Moneylender", "Poacher", "Remodel", "ThroneRoom", "CouncilRoom",
           "Mine", "Sentry", "Artisan", Cantrip, Merchant}

\* victory points a piece of the type is worth
points(t) ==
    CASE t = "Curse" -> -1 [] t = "Estate" -> 1 [] t = "Duchy" -> 3
      [] t = "Province" -> 6 [] OTHER -> 0

(***************************************************************************)
(* combinatorics helpers (evolvedominion.engine.combinatorics).            *)
(***************************************************************************)
\* partition(predicate, items): <<matching, non_matching>>, both stable
partition(pred(_), items) ==
    << SelectSeq(items, pred), SelectSeq(items, LAMBDA x : ~pred(x)) >>

RECURSIVE first_of_each_type(_, _)
first_of_each_type(items, seen) ==
    IF items = <<>> THEN <<>>
    ELSE IF Head(items).type \in seen
         THEN first_of_each_type(Tail(items), seen)
         ELSE <<Head(items)>>
              \o first_of_each_type(Tail(items), seen \cup {Head(items).type})

\* get_pieces(zone, unique, predicate): filter, then (if unique) keep the
\* first occurrence of every piece type, in zone order
get_pieces(zone, unique, pred(_)) ==
    IF unique THEN first_of_each_type(SelectSeq(zone, pred), {})
    ELSE SelectSeq(zone, pred)

AnyPiece(x) == TRUE

RECURSIVE combinations(_, _)
\* the sub-lists of k elements of zone, chosen by position, in the order of
\* the positions
combinations(zone, k) ==
    IF k = 0 THEN << <<>> >>
    ELSE IF Len(zone) < k THEN <<>>
    ELSE [i \in DOMAIN combinations(Tail(zone), k - 1) |->
             <<Head(zone)>> \o combinations(Tail(zone), k - 1)[i]]
         \o combinations(Tail(zone), k)

RECURSIVE combinations_from(_, _, _)
combinations_from(zone, k, kmax) ==
    IF k > kmax THEN <<>>
    ELSE combinations(zone, k) \o combinations_from(zone, k + 1, kmax)

\* get_piece_combinations(zone, kmin, kmax): every combination of kmin to kmax
\* pieces of zone; kmax = 0 stands for the default, len(zone)
get_piece_combinations(zone, kmin, kmax) ==
    combinations_from(zone, kmin, IF kmax = 0 THEN Len(zone) ELSE Min(kmax, Len(zone)))

RECURSIVE insert_by_key(_, _)
\* the list of <<key, item>> pairs with pair x inserted after every pair whose
\* key is not greater (the step of a stable sort)
insert_by_key(sorted, x) ==
    IF sorted = <<>> THEN <<x>>
    ELSE IF Head(sorted)[1] <= x[1] THEN <<Head(sorted)>> \o insert_by_key(Tail(sorted), x)
    ELSE <<x>> \o sorted

RECURSIVE sort_pairs(_)
sort_pairs(pairs) ==
    IF pairs = <<>> THEN <<>>
    ELSE insert_by_key(sort_pairs(Front(pairs)), Last(pairs))

\* sorted(items, key=...) with the integer keys given as a list: stable
sorted(items, keys) ==
    LET pairs == sort_pairs([i \in DOMAIN items |-> <<keys[i], items[i]>>])
    IN  [i \in DOMAIN pairs |-> pairs[i][2]]

(***************************************************************************)
(* The world an Effect acts on: the State object, the Actors and the       *)
(* exception (if any) that is propagating.                                 *)
(***************************************************************************)
ZONE_NAMES == <<"HAND", "DECK", "DISCARD", "ASIDE", "PLAY">>

\* where a list of pieces lives: a zone of a player, the trash or a pile
ZoneOf(p, z) == [k |-> "zone", p |-> p, z |-> z, i |-> 0]

TrashPlace == [k |-> "trash", p |-> 0, z |-> "", i |-> 0]

PilePlace(i) == [k |-> "pile", p |-> 0, z |-> "", i |-> i]

Get(w, pl) ==
    CASE pl.k = "zone" -> w.actors[pl.p][pl.z]
      [] pl.k = "trash" -> w.state.TRASH
      [] pl.k = "pile" -> w.state.piles[pl.i]

Put(w, pl, v) ==
    CASE pl.k = "zone" -> [w EXCEPT !.actors[pl.p][pl.z] = v]
      [] pl.k = "trash" -> [w EXCEPT !.state.TRASH = v]
      [] pl.k = "pile" -> [w EXCEPT !.state.piles[pl.i] = v]

Raise(w, e) == [w EXCEPT !.exc = e]

\* destination.append(source.pop(source.index(piece)))
transfer_piece(w, piece, destination, source) ==
    LET i == IndexOf(Get(w, source), piece) IN
    IF i = 0 THEN Raise(w, "ValueError")
    ELSE LET w1 == Put(w, source, RemoveAt(Get(w, source), i))
         IN  Put(w1, destination, Append(Get(w1, destination), piece))

\* destination.append(source.pop())
transfer_top_piece(w, destination, source) ==
    IF Get(w, source) = <<>> THEN Raise(w, "IndexError")
    ELSE LET x == Last(Get(w, source))
             w1 == Put(w, source, Front(Get(w, source)))
         IN  Put(w1, destination, Append(Get(w1, destination), x))

(***************************************************************************)
(* State mutation primitives.                                              *)
(***************************************************************************)
add_action(w, n) == [w EXCEPT !.state.n_action = @ + n]

add_buy(w, n) == [w EXCEPT !.state.n_buy = @ + n]

add_coin(w, n) == [w EXCEPT !.state.n_coin = @ + n]

add_merchant_silver_bonus(w) == [w EXCEPT !.state.merchant_silver_bonus = @ + 1]

\* add_silver that adds the bonus for every Silver
add_silver_bonus_always(w) ==
    add_coin([w EXCEPT !.state.n_silver_played_this_turn = @ + 1],
             2 + w.state.merchant_silver_bonus)

add_silver(w) ==
    LET w1 == add_coin(w, 2)
        w2 == [w1 EXCEPT !.state.n_silver_played_this_turn = @ + 1]
    IN  IF w2.state.n_silver_played_this_turn = 1
        THEN add_coin(w2, w2.state.merchant_silver_bonus)
        ELSE w2

\* end_phase that clears the flag of the phase and leaves the counters
end_phase_flag_only(w, actor, phase) ==
    CASE phase = "ACTION_PHASE" -> [w EXCEPT !.state.need_action_phase = FALSE]
      [] phase = "TREASURE_PHASE" -> [w EXCEPT !.state.need_treasure_phase = FALSE]
      [] phase = "BUY_PHASE" -> [w EXCEPT !.state.need_buy_phase = FALSE]
      [] OTHER -> w

end_phase(w, actor, phase) ==
    CASE phase = "ACTION_PHASE" ->
             [w EXCEPT !.state.need_action_phase = FALSE, !.state.n_action = 0]
      [] phase = "TREASURE_PHASE" ->
             [w EXCEPT !.state.need_treasure_phase = FALSE]
      [] phase = "BUY_PHASE" ->
             [w EXCEPT !.state.need_buy_phase = FALSE, !.state.n_buy = 0]
      [] OTHER -> w

pay_cost(w, piece) ==
    [w EXCEPT !.state.n_buy = @ - 1, !.state.n_coin = @ - cost(piece.type)]

\* handle_acquisition that never sets province_pile_empty
handle_acquisition_unflagged(w, player, piece, destination) ==
    LET source == PilePlace(total_order_index(piece.type) + 1)
        w1 == transfer_piece(w, piece, destination, source)
    IN  IF w1.exc # "" THEN w1
        ELSE IF Get(w1, source) = <<>>
        THEN [w1 EXCEPT !.state.n_empty_piles = @ + 1]
        ELSE w1

handle_acquisition(w, player, piece, destination) ==
    LET source == PilePlace(total_order_index(piece.type) + 1)
        w1 == transfer_piece(w, piece, destination, source)
    IN  IF w1.exc # "" THEN w1
        ELSE IF Get(w1, source) = <<>>
        THEN [w1 EXCEPT !.state.n_empty_piles = @ + 1,
                        !.state.province_pile_empty =
                            IF is_province(piece.type) THEN TRUE ELSE @]
        ELSE w1

\* the zone of actor an Effect names, or the default when it names none
Place(actor, name, default) ==
    ZoneOf(actor, IF name = "" THEN default ELSE name)

\* gain that moves the piece and does not track the piles
gain_untracked(w, actor, piece, destination) ==
    transfer_piece(w, piece, Place(actor, destination, "DISCARD"),
                   PilePlace(total_order_index(piece.type) + 1))

gain(w, actor, piece, destination) ==
    handle_acquisition(w, actor, piece, Place(actor, destination, "DISCARD"))

buy_piece(w, actor, piece, destination) ==
    handle_acquisition(pay_cost(w, piece), actor, piece,
                       Place(actor, destination, "DISCARD"))

\* replenish_deck that puts the shuffled DISCARD on top of DECK
replenish_deck_on_top(a) ==
    {[a EXCEPT !.DECK = a.DECK \o o, !.DISCARD = <<>>] : o \in Orderings(a.DISCARD)}

\* the possible results of shuffling DISCARD under DECK (top = last element)
replenish_deck(a) ==
    {[a EXCEPT !.DECK = o \o a.DECK, !.DISCARD = <<>>] : o \in Orderings(a.DISCARD)}

validate_deck_size(a, n) == n <= Len(a.DECK)

prepare_deck(a, n) ==
    IF ~validate_deck_size(a, n) /\ a.DISCARD # <<>>
    THEN replenish_deck(a)
    ELSE {a}

\* draw that takes what DECK holds and never calls prepare_deck
draw_unprepared(w, actor, n) ==
    {LET b == w.actors[actor]
         true_n == Min(n, Len(b.DECK))
         k == Len(b.DECK) - true_n
     IN  [w EXCEPT !.actors[actor] =
             [b EXCEPT !.HAND = @ \o Reverse(SubSeq(b.DECK, k + 1, Len(b.DECK))),
                       !.DECK = SubSeq(b.DECK, 1, k)]]}

draw(w, actor, n) ==
    {LET true_n == Min(n, Len(b.DECK))
         k == Len(b.DECK) - true_n
     IN  [w EXCEPT !.actors[actor] =
             [b EXCEPT !.HAND = @ \o Reverse(SubSeq(b.DECK, k + 1, Len(b.DECK))),
                       !.DECK = SubSeq(b.DECK, 1, k)]]
     : b \in prepare_deck(w.actors[actor], n)}

\* add_card that draws one card more
add_card_one_more(w, n) == draw(w, w.state.current_player, n + 1)

add_card(w, n) == draw(w, w.state.current_player, n)

swap_top_cards_of_deck(w, actor) ==
    LET d == ZoneOf(actor, "DECK")
        l == Len(Get(w, d))
    IN  IF l < 2 THEN Raise(w, "IndexError")
        ELSE Put(w, d, SubSeq(Get(w, d), 1, l - 2) \o <<Get(w, d)[l], Get(w, d)[l - 1]>>)

trash(w, actor, piece, source) ==
    transfer_piece(w, piece, TrashPlace, Place(actor, source, "HAND"))

RECURSIVE trash_pieces(_, _, _, _)
trash_pieces(w, actor, pieces, source) ==
    IF pieces = <<>> \/ w.exc # "" THEN w
    ELSE trash_pieces(trash(w, actor, Head(pieces), source), actor, Tail(pieces), source)

reveal(w, actor, piece) == w

\* do_nothing that costs an action
do_nothing_pays_action(w, actor) == add_action(w, -1)

do_nothing(w, actor) == w

put(w, actor, piece, destination, source) ==
    transfer_piece(w, piece, Place(actor, destination, "HAND"), Place(actor, source, "DECK"))

set_aside(w, actor, piece, source) ==
    transfer_piece(w, piece, ZoneOf(actor, "ASIDE"), Place(actor, source, "HAND"))

topdeck(w, actor, piece, source) ==
    transfer_piece(w, piece, ZoneOf(actor, "DECK"), Place(actor, source, "HAND"))

\* discard_piece that leaves the piece in its source as well
discard_piece_kept(w, actor, piece, source) ==
    LET src == Place(actor, source, "HAND")
        parts == partition(LAMBDA x : x = piece, Get(w, src))
    IN  [w EXCEPT !.actors[actor].DISCARD = @ \o parts[1]]

discard_piece(w, actor, piece, source) ==
    LET src == Place(actor, source, "HAND")
        parts == partition(LAMBDA x : x = piece, Get(w, src))
        w1 == Put(w, src, parts[2])
    IN  [w1 EXCEPT !.actors[actor].DISCARD = @ \o parts[1]]

discard_pieces(w, actor, pieces, source) ==
    LET src == Place(actor, source, "HAND")
        to_discard == SelectSeq(Get(w, src), LAMBDA x : x \in Range(pieces))
        to_keep == SelectSeq(Get(w, src), LAMBDA x : x \notin Range(pieces))
        w1 == Put(w, src, to_keep)
    IN  [w1 EXCEPT !.actors[actor].DISCARD = @ \o to_discard]

discard_zone(w, actor, source) ==
    LET src == ZoneOf(actor, source)
        w1 == [w EXCEPT !.actors[actor].DISCARD = @ \o Get(w, src)]
    IN  Put(w1, src, <<>>)

(***************************************************************************)
(* Effects, Processes and Consequences as data.  An Effect is the name of  *)
(* the bound function with its keyword arguments; an Initiate is the       *)
(* Effect "resolve"; a Process is named by its class, with the actor it    *)
(* targets and the position (pc) of its __call__.                          *)
(***************************************************************************)
NoArgs ==
    [f |-> "", actor |-> 0, piece |-> NoPiece, pieces |-> <<>>, n |-> 0,
     source |-> "", destination |-> "", phase |-> "", decision |-> "",
     free |-> FALSE, pc |-> "", before |-> <<>>]

Effect(f, actor) == [NoArgs EXCEPT !.f = f, !.actor = actor]

EffectP(f, actor, piece, source) ==
    [NoArgs EXCEPT !.f = f, !.actor = actor, !.piece = piece, !.source = source]

EffectN(f, n) == [NoArgs EXCEPT !.f = f, !.n = n]

Initiate(actor, decision) ==
    [NoArgs EXCEPT !.f = "resolve", !.actor = actor, !.decision = decision]

\* Update(process.mark_immunity) of the Attack that targets actor
Update(actor) == [NoArgs EXCEPT !.f = "mark_immunity", !.actor = actor]

Process(cls, actor) == [NoArgs EXCEPT !.f = cls, !.actor = actor, !.pc = "call"]

\* the point where enact(state, consequence) returns to resolve: it remembers
\* the Consequence and the state and actors enact was called with
Return(st, acts, consequence) ==
    [NoArgs EXCEPT !.f = "return",
                   !.before = <<[state |-> st, actors |-> acts, chosen |-> consequence]>>]

AttackClasses == {"MilitiaAttack", "BanditAttack", "WitchAttack", "BureaucratAttack"}

ProcessClasses == AttackClasses \cup {"LibraryProcess"}

Consequence(effects) ==
    [cls |-> "Consequence", effects |-> effects, action |-> NoPiece,
     gained_piece |-> NoPiece, lost_piece |-> NoPiece]

PassOption(actor, phase) ==
    [Consequence(<<[Effect("end_phase", actor) EXCEPT !.phase = phase]>>)
        EXCEPT !.cls = "PassOption"]

NullOption(actor) ==
    [Consequence(<<Effect("do_nothing", actor)>>) EXCEPT !.cls = "NullOption"]

Act(actor, action) ==
    [Consequence(<<EffectP("play_piece", actor, action, "")>>)
        EXCEPT !.cls = "Act", !.action = action]

Acquisition(effects) ==
    [Consequence(effects) EXCEPT !.cls = "Acquisition",
                                 !.gained_piece = effects[1].piece]

Purchase(actor, piece) ==
    [Acquisition(<<EffectP("buy_piece", actor, piece, "")>>) EXCEPT !.cls = "Purchase"]

DependentAcquisition(effects) ==
    [Consequence(effects) EXCEPT !.cls = "DependentAcquisition",
                                 !.gained_piece = effects[2].piece,
                                 !.lost_piece = effects[1].piece]

\* Consequence.add(effect)
add(consequence, effect) == [consequence EXCEPT !.effects = Append(@, effect)]

(***************************************************************************)
(* The card catalogue (evolvedominion.engine.pieces): simple_effects and   *)
(* decision of every piece type.                                           *)
(***************************************************************************)
simple_effects(t) ==
    CASE t = "Copper" -> <<EffectN("add_coin", 1)>>
      [] t = "Silver" -> <<Effect("add_silver", 0)>>
      [] t = "Gold" -> <<EffectN("add_coin", 3)>>
      [] t = "Moat" -> <<EffectN("add_card", 2)>>
      [] t = "Village" -> <<EffectN("add_action", 2), EffectN("add_card", 1)>>
      [] t = "Militia" -> <<EffectN("add_coin", 2)>>
      [] t = "Vassal" -> <<EffectN("add_coin", 2)>>
      [] t = "Witch" -> <<EffectN("add_card", 2)>>
      [] t = "Cellar" -> <<EffectN("add_action", 1)>>
      [] t = "Harbinger" -> <<EffectN("add_card", 1), EffectN("add_action", 1)>>
      [] t = "Poacher" ->
             <<EffectN("add_card", 1), EffectN("add_action", 1), EffectN("add_coin", 1)>>
      [] t = "CouncilRoom" -> <<EffectN("add_card", 4), EffectN("add_buy", 1)>>
      [] t = "Sentry" -> <<EffectN("add_card", 1), EffectN("add_action", 1)>>
      [] t = Cantrip -> <<EffectN("add_action", 1), EffectN("add_card", 1)>>
      [] t = Merchant ->
             <<EffectN("add_card", 1), EffectN("add_action", 1),
               Effect("add_merchant_silver_bonus", 0)>>
      [] OTHER -> <<>>

decision(t) ==
    CASE t = "Militia" -> "MilitiaChoices"
      [] t = "Vassal" -> "VassalChoices"
      [] t = "Bureaucrat" -> "BureaucratChoices"
      [] t = "Bandit" -> "BanditChoices"
      [] t = "Library" -> "LibraryChoices"
      [] t = "Witch" -> "WitchChoices"
      [] t = "Cellar" -> "CellarChoices"
      [] t = "Chapel" -> "ChapelChoices"
      [] t = "Harbinger" -> "HarbingerChoices"
      [] t = "Workshop" -> "WorkshopChoices"
      [] t = "Moneylender" -> "MoneylenderChoices"
      [] t = "Poacher" -> "PoacherChoices"
      [] t = "Remodel" -> "RemodelChoices"
      [] t = "ThroneRoom" -> "ThroneRoomChoices"
      [] t = "CouncilRoom" -> "CouncilRoomChoices"
      [] t = "Mine" -> "MineChoices"
      [] t = "Sentry" -> "SentryChoices"
      [] t = "Artisan" -> "ArtisanChoices"
      [] OTHER -> ""

(***************************************************************************)
(* Actor and State capabilities the engine consumes.                       *)
(***************************************************************************)
\* the other players, starting with the next one in turn order, wrapping
opponents(p) == [i \in 1 .. (NPlayers - 1) |-> (p + i) % NPlayers]

\* State.filter_supply(predicate): the top piece of every non-empty pile
\* whose piece satisfies predicate, in pile order
filter_supply(w, pred(_)) ==
    LET piles == w.state.piles
        stocked == SelectSeq([i \in 1 .. Len(piles) |-> i],
                             LAMBDA i : piles[i] # <<>> /\ pred(Last(piles[i])))
    IN  [k \in 1 .. Len(stocked) |-> Last(piles[stocked[k]])]

MAX_N_TURNS == 180

game_over(st) ==
    st.n_empty_piles >= 3 \/ st.province_pile_empty \/ st.n_total_turns_played > MAX_N_TURNS

(***************************************************************************)
(* The Decision catalogue: generate_choices of every Decision, computed on *)
(* the world w for the actor.  Decisions that first call prepare_deck are  *)
(* computed on the world prepare_deck leaves (see expand_choices).         *)
(***************************************************************************)
HAND(w, p) == w.actors[p].HAND

DECK(w, p) == w.actors[p].DECK

DISCARD(w, p) == w.actors[p].DISCARD

ASIDE(w, p) == w.actors[p].ASIDE

PLAY(w, p) == w.actors[p].PLAY

MapSeq(s, F(_)) == [i \in DOMAIN s |-> F(s[i])]

\* attack_each that takes the opponents last to first
attack_each_reversed(consequence, cls, actor) ==
    [consequence EXCEPT
        !.effects = @ \o MapSeq(Reverse(opponents(actor)), LAMBDA victim : Process(cls, victim))]

\* one Process of class cls per opponent of actor, in opponents order
attack_each(consequence, cls, actor) ==
    [consequence EXCEPT
        !.effects = @ \o MapSeq(opponents(actor), LAMBDA victim : Process(cls, victim))]

\* ImmunityProcedure that reveals the Moat and marks nothing
ImmunityProcedure_unmarked(w, actor) ==
    LET moat == get_pieces(HAND(w, actor), TRUE, LAMBDA x : x.type = "Moat") IN
    IF moat # <<>>
    THEN <<Consequence(<<EffectP("reveal", actor, moat[1], "")>>)>>
    ELSE <<NullOption(actor)>>

ImmunityProcedure(w, actor) ==
    LET moat == get_pieces(HAND(w, actor), TRUE, LAMBDA x : x.type = "Moat") IN
    IF moat # <<>>
    THEN <<Consequence(<<EffectP("reveal", actor, moat[1], ""), Update(actor)>>)>>
    ELSE <<NullOption(actor)>>

ActionChoices(w, actor) ==
    <<PassOption(actor, "ACTION_PHASE")>>
    \o (IF w.state.n_action # 0
        THEN MapSeq(get_pieces(HAND(w, actor), TRUE, LAMBDA x : is_action(x.type)),
                    LAMBDA action : Act(actor, action))
        ELSE <<>>)

TreasureChoices(w, actor) ==
    LET treasures == get_pieces(HAND(w, actor), FALSE, LAMBDA x : is_treasure(x.type)) IN
    <<PassOption(actor, "TREASURE_PHASE")>>
    \o (IF treasures # <<>>
        THEN <<Consequence(<<[Effect("play_treasures", actor) EXCEPT !.pieces = treasures]>>)>>
        ELSE <<>>)

\* BuyChoices that asks for more coin than the cost
BuyChoices_cheaper(w, actor) ==
    <<PassOption(actor, "BUY_PHASE")>>
    \o (IF w.state.n_buy # 0
        THEN MapSeq(filter_supply(w, LAMBDA x : cost(x.type) < w.state.n_coin),
                    LAMBDA buyable : Purchase(actor, buyable))
        ELSE <<>>)

BuyChoices(w, actor) ==
    <<PassOption(actor, "BUY_PHASE")>>
    \o (IF w.state.n_buy # 0
        THEN MapSeq(filter_supply(w, LAMBDA x : cost(x.type) <= w.state.n_coin),
                    LAMBDA buyable : Purchase(actor, buyable))
        ELSE <<>>)

MilitiaVictimProcedure(w, actor) ==
    MapSeq(get_pieces(HAND(w, actor), TRUE, AnyPiece),
           LAMBDA discardable : Consequence(<<EffectP("discard_piece", actor, discardable, "")>>))

MilitiaChoices(w, actor) == <<attack_each(Consequence(<<>>), "MilitiaAttack", actor)>>

\* VassalChoices that offers to play the top card whatever it is
VassalChoices_plays_any(w, actor) ==
    IF DECK(w, actor) = <<>> THEN <<NullOption(actor)>>
    ELSE LET topcard == Last(DECK(w, actor)) IN
         <<Consequence(<<EffectP("discard_piece", actor, topcard, "DECK")>>),
           Consequence(<<[EffectP("play_piece", actor, topcard, "DECK") EXCEPT !.free = TRUE]>>)>>

VassalChoices(w, actor) ==
    IF DECK(w, actor) = <<>> THEN <<NullOption(actor)>>
    ELSE LET topcard == Last(DECK(w, actor)) IN
         <<Consequence(<<EffectP("discard_piece", actor, topcard, "DECK")>>)>>
         \o (IF is_action(topcard.type)
             THEN <<Consequence(<<[EffectP("play_piece", actor, topcard, "DECK")
                                      EXCEPT !.free = TRUE]>>)>>
             ELSE <<>>)

BureaucratChoices(w, actor) ==
    LET silver == filter_supply(w, LAMBDA x : x.type = "Silver")
        outcome == IF silver # <<>>
                   THEN Acquisition(<<[EffectP("gain", actor, Last(silver), "")
                                          EXCEPT !.destination = "DECK"]>>)
                   ELSE Consequence(<<>>)
    IN  <<attack_each(outcome, "BureaucratAttack", actor)>>

could_trash(piece) == is_treasure(piece.type) /\ piece.type # "Copper"

\* BanditProcedure.generate_choices; the branch for a DECK of one card raises
\* (see raises)
BanditProcedure(w, actor) ==
    IF DECK(w, actor) = <<>> THEN <<NullOption(actor)>>
    ELSE
    LET deck == DECK(w, actor)
        topcards == <<deck[Len(deck)], deck[Len(deck) - 1]>>
        reveal_effects == MapSeq(topcards, LAMBDA card : EffectP("reveal", actor, card, ""))
        parts == partition(could_trash, topcards)
        trashables == parts[1]
        discardables == parts[2]
        unique_trashables == get_pieces(trashables, TRUE, AnyPiece)
        n_unique_trashables == Len(unique_trashables)
        both(ti, di) ==
            Consequence(reveal_effects
                        \o <<EffectP("trash", actor, unique_trashables[ti], "DECK"),
                             EffectP("discard_piece", actor, unique_trashables[di], "DECK")>>)
    IN  CASE n_unique_trashables = 2 -> <<both(1, 2), both(2, 1)>>
          [] n_unique_trashables = 1 ->
               <<Consequence(reveal_effects
                             \o <<EffectP("trash", actor, unique_trashables[1], "DECK")>>
                             \o (IF discardables # <<>>
                                 THEN <<EffectP("discard_piece", actor, discardables[1], "DECK")>>
                                 ELSE <<>>))>>
          [] OTHER ->
               <<Consequence(reveal_effects
                             \o <<[Effect("discard_pieces", actor)
                                     EXCEPT !.pieces = discardables, !.source = "DECK"]>>)>>

BanditChoices(w, actor) ==
    LET gold == filter_supply(w, LAMBDA x : x.type = "Gold")
        outcome == IF gold # <<>>
                   THEN Acquisition(<<EffectP("gain", actor, Last(gold), "")>>)
                   ELSE Consequence(<<Effect("do_nothing", actor)>>)
    IN  <<attack_each(outcome, "BanditAttack", actor)>>

LibraryProcedure(w, actor) ==
    IF DECK(w, actor) = <<>> THEN <<NullOption(actor)>>
    ELSE LET topcard == Last(DECK(w, actor)) IN
         <<Consequence(<<EffectP("put", actor, topcard, "")>>)>>
         \o (IF is_action(topcard.type)
             THEN <<Consequence(<<EffectP("set_aside", actor, topcard, "DECK")>>)>>
             ELSE <<>>)

\* LibraryTeardown that leaves the cards set aside where they are
LibraryTeardown_keeps_aside(w, actor) == <<NullOption(actor)>>

LibraryTeardown(w, actor) ==
    IF ASIDE(w, actor) = <<>> THEN <<NullOption(actor)>>
    ELSE <<Consequence(<<[Effect("discard_zone", actor) EXCEPT !.source = "ASIDE"]>>)>>

\* antecedent with a Militia that goes on down to two cards
antecedent_down_to_two(cls, w, actor, immune) ==
    CASE cls = "MilitiaAttack" -> ~immune /\ Len(HAND(w, actor)) > 2
      [] cls \in {"BanditAttack", "WitchAttack", "BureaucratAttack"} -> ~immune
      [] cls = "LibraryProcess" ->
             Len(HAND(w, actor)) < 7
             /\ Len(DECK(w, actor)) + Len(DISCARD(w, actor)) # 0
      [] OTHER -> FALSE

\* the antecedent property of a Process of class cls that targets actor
antecedent(cls, w, actor, immune) ==
    CASE cls = "MilitiaAttack" -> ~immune /\ Len(HAND(w, actor)) > 3
      [] cls \in {"BanditAttack", "WitchAttack", "BureaucratAttack"} -> ~immune
      [] cls = "LibraryProcess" ->
             Len(HAND(w, actor)) < 7
             /\ Len(DECK(w, actor)) + Len(DISCARD(w, actor)) # 0
      [] OTHER -> FALSE

LibraryChoices(w, actor) ==
    IF antecedent("LibraryProcess", w, actor, FALSE)
    THEN <<Consequence(<<Process("LibraryProcess", actor)>>)>>
    ELSE <<NullOption(actor)>>

WitchChoices(w, actor) == <<attack_each(Consequence(<<>>), "WitchAttack", actor)>>

\* repr(piece) as its rank in the alphabetical order of the type names
repr_rank(t) ==
    IndexOf(<< "Artisan", "Bandit", "Bureaucrat", "Cellar", "Chapel", "Copper",
               "CouncilRoom", "Curse", "Duchy", "Estate", "Gold", "Harbinger",
               "Library", "Militia", "Mine", "Moat", "Moneylender", "Poacher",
               "Province", "Remodel", "Sentry", "Silver", "ThroneRoom", "Vassal",
               "Village", "Witch", "Workshop" >>, t)

\* the Consequences of trashing trashable and then gaining one of gainables,
\* or of only trashing it when there is nothing to gain
trash_then_gain(actor, trashable, gainables) ==
    IF gainables # <<>>
    THEN MapSeq(gainables,
                LAMBDA gainable :
                    DependentAcquisition(<<EffectP("trash", actor, trashable, ""),
                                           EffectP("gain", actor, gainable, "")>>))
    ELSE <<Consequence(<<EffectP("trash", actor, trashable, "")>>)>>

\* MineChoices that gains from any pile
MineChoices_any_pile(w, actor) ==
    <<NullOption(actor)>>
    \o Flatten(MapSeq(get_pieces(HAND(w, actor), TRUE, LAMBDA x : is_treasure(x.type)),
                      LAMBDA trashable :
                          trash_then_gain(actor, trashable,
                              filter_supply(w, LAMBDA x : cost(x.type) <= cost(trashable.type) + 3))))

MineChoices(w, actor) ==
    <<NullOption(actor)>>
    \o Flatten(MapSeq(get_pieces(HAND(w, actor), TRUE, LAMBDA x : is_treasure(x.type)),
                      LAMBDA trashable :
                          trash_then_gain(actor, trashable,
                              filter_supply(w, LAMBDA x : is_treasure(x.type)
                                                          /\ cost(x.type) <= cost(trashable.type) + 3))))

\* RemodelChoices that allows a gain that costs up to 3 more
RemodelChoices_plus_three(w, actor) ==
    IF HAND(w, actor) # <<>>
    THEN Flatten(MapSeq(get_pieces(HAND(w, actor), TRUE, AnyPiece),
                        LAMBDA trashable :
                            trash_then_gain(actor, trashable,
                                filter_supply(w, LAMBDA x : cost(x.type) <= cost(trashable.type) + 3))))
    ELSE <<NullOption(actor)>>

RemodelChoices(w, actor) ==
    IF HAND(w, actor) # <<>>
    THEN Flatten(MapSeq(get_pieces(HAND(w, actor), TRUE, AnyPiece),
                        LAMBDA trashable :
                            trash_then_gain(actor, trashable,
                                filter_supply(w, LAMBDA x : cost(x.type) <= cost(trashable.type) + 2))))
    ELSE <<NullOption(actor)>>

discard_and_draw(actor, pieces) ==
    Consequence(<<[Effect("discard_pieces", actor) EXCEPT !.pieces = pieces],
                  [Effect("draw", actor) EXCEPT !.n = Len(pieces)]>>)

generate_heuristic_choices(w, actor) ==
    LET pieces_to_discard == get_pieces(HAND(w, actor), FALSE, LAMBDA x : is_victory(x.type))
    IN  IF pieces_to_discard # <<>> THEN <<discard_and_draw(actor, pieces_to_discard)>> ELSE <<>>

generate_human_choices(w, actor) ==
    LET combos == IF HAND(w, actor) # <<>>
                  THEN get_piece_combinations(HAND(w, actor), 1, 0) ELSE <<>>
        choices == MapSeq(combos,
                          LAMBDA combo :
                              discard_and_draw(actor,
                                  sorted(combo, MapSeq(combo, LAMBDA x : repr_rank(x.type)))))
    IN  sorted(choices,
               MapSeq(choices,
                      LAMBDA c : 100 * c.effects[2].n + repr_rank(c.effects[1].pieces[1].type)))

CellarChoices(w, actor) ==
    <<NullOption(actor)>>
    \o (IF w.actors[actor].repr = "You"
        THEN generate_human_choices(w, actor)
        ELSE generate_heuristic_choices(w, actor))

WorkshopChoices(w, actor) ==
    LET gainables == filter_supply(w, LAMBDA x : cost(x.type) <= 4) IN
    IF gainables # <<>>
    THEN MapSeq(gainables, LAMBDA gainable : Acquisition(<<EffectP("gain", actor, gainable, "")>>))
    ELSE <<NullOption(actor)>>

ChapelChoices(w, actor) ==
    <<NullOption(actor)>>
    \o (IF HAND(w, actor) # <<>>
        THEN MapSeq(get_piece_combinations(HAND(w, actor), 1, 4),
                    LAMBDA combo :
                        Consequence(<<[Effect("trash_pieces", actor) EXCEPT !.pieces = combo]>>))
        ELSE <<>>)

HarbingerChoices(w, actor) ==
    <<NullOption(actor)>>
    \o MapSeq(get_pieces(DISCARD(w, actor), TRUE, AnyPiece),
              LAMBDA target : Consequence(<<EffectP("topdeck", actor, target, "DISCARD")>>))

MoneylenderChoices(w, actor) ==
    LET coppers == get_pieces(HAND(w, actor), TRUE, LAMBDA x : x.type = "Copper") IN
    <<NullOption(actor)>>
    \o (IF coppers # <<>>
        THEN <<Consequence(<<EffectP("trash", actor, coppers[1], ""), EffectN("add_coin", 2)>>)>>
        ELSE <<>>)

PoacherProcedure(w, actor) ==
    <<Consequence(MapSeq(get_pieces(HAND(w, actor), TRUE, AnyPiece),
                         LAMBDA card : EffectP("discard_piece", actor, card, "")))>>

PoacherChoices(w, actor) ==
    LET n_to_discard == Min(w.state.n_empty_piles, Len(HAND(w, actor))) IN
    IF n_to_discard = 0 THEN <<NullOption(actor)>>
    ELSE <<Consequence([i \in 1 .. n_to_discard |-> Initiate(actor, "PoacherProcedure")])>>

ThroneRoomChoices(w, actor) ==
    <<NullOption(actor)>>
    \o MapSeq(get_pieces(HAND(w, actor), TRUE, LAMBDA x : is_action(x.type)),
              LAMBDA action :
                  Consequence(<<EffectP("play_piece", actor, action, "HAND"),
                                EffectP("resolve_effects", actor, action, "")>>))

CouncilRoomProcedure(w, actor) ==
    <<Consequence(<<[Effect("draw", actor) EXCEPT !.n = 1]>>)>>

CouncilRoomChoices(w, actor) ==
    <<Consequence(MapSeq(opponents(actor),
                         LAMBDA victim : Initiate(victim, "CouncilRoomProcedure")))>>

\* SentryChoices.generate_choices with an empty DECK; with cards in DECK it
\* raises (see raises)
SentryChoices(w, actor) == <<NullOption(actor)>>

\* the main_effect, setup_effect and teardown_effect of a Process
main_effect(cls, actor) ==
    CASE cls = "MilitiaAttack" -> Initiate(actor, "MilitiaVictimProcedure")
      [] cls = "BanditAttack" -> Initiate(actor, "BanditProcedure")
      [] cls = "WitchAttack" -> Initiate(actor, "WitchProcedure")
      [] cls = "BureaucratAttack" -> Initiate(actor, "BureaucratProcedure")
      [] cls = "LibraryProcess" -> Initiate(actor, "LibraryProcedure")

setup_effect(cls, actor) ==
    IF cls \in AttackClasses THEN <<Initiate(actor, "ImmunityProcedure")>> ELSE <<>>

teardown_effect(cls, actor) ==
    IF cls = "LibraryProcess" THEN <<Initiate(actor, "LibraryTeardown")>> ELSE <<>>

\* the exception generate_choices raises instead of returning, "" if none
raises(d, w, actor) ==
    CASE d = "BureaucratProcedure" -> "TypeError"
      [] d = "WitchProcedure" -> "NameError"
      [] d = "BanditProcedure" /\ Len(DECK(w, actor)) = 1 -> "NameError"
      [] d = "SentryChoices" /\ DECK(w, actor) # <<>> -> "NameError"
      [] d = "ArtisanChoices" -> "NameError"
      [] OTHER -> ""

\* the n of the prepare_deck call a Decision starts with (0: no call)
prepares(d) ==
    CASE d \in {"VassalChoices", "LibraryProcedure"} -> 1
      [] d \in {"BanditProcedure", "SentryChoices"} -> 2
      [] OTHER -> 0

generate_choices(d, w, actor) ==
    CASE d = "ActionChoices" -> ActionChoices(w, actor)
      [] d = "TreasureChoices" -> TreasureChoices(w, actor)
      [] d = "BuyChoices" -> BuyChoices(w, actor)
      [] d = "ImmunityProcedure" -> ImmunityProcedure(w, actor)
      [] d = "MilitiaVictimProcedure" -> MilitiaVictimProcedure(w, actor)
      [] d = "MilitiaChoices" -> MilitiaChoices(w, actor)
      [] d = "VassalChoices" -> VassalChoices(w, actor)
      [] d = "BureaucratChoices" -> BureaucratChoices(w, actor)
      [] d = "BanditProcedure" -> BanditProcedure(w, actor)
      [] d = "BanditChoices" -> BanditChoices(w, actor)
      [] d = "LibraryProcedure" -> LibraryProcedure(w, actor)
      [] d = "LibraryTeardown" -> LibraryTeardown(w, actor)
      [] d = "LibraryChoices" -> LibraryChoices(w, actor)
      [] d = "WitchChoices" -> WitchChoices(w, actor)
      [] d = "MineChoices" -> MineChoices(w, actor)
      [] d = "RemodelChoices" -> RemodelChoices(w, actor)
      [] d = "CellarChoices" -> CellarChoices(w, actor)
      [] d = "WorkshopChoices" -> WorkshopChoices(w, actor)
      [] d = "ChapelChoices" -> ChapelChoices(w, actor)
      [] d = "HarbingerChoices" -> HarbingerChoices(w, actor)
      [] d = "MoneylenderChoices" -> MoneylenderChoices(w, actor)
      [] d = "PoacherProcedure" -> PoacherProcedure(w, actor)
      [] d = "PoacherChoices" -> PoacherChoices(w, actor)
      [] d = "ThroneRoomChoices" -> ThroneRoomChoices(w, actor)
      [] d = "CouncilRoomProcedure" -> CouncilRoomProcedure(w, actor)
      [] d = "CouncilRoomChoices" -> CouncilRoomChoices(w, actor)
      [] d = "SentryChoices" -> SentryChoices(w, actor)
      [] OTHER -> <<>>

\* expand_choices(state, actor, decision): every outcome of the call, as the
\* world it leaves, the list it returns and the exception it raises
expand_choices(w, actor, d) ==
    {[w |-> w1,
      exc |-> raises(d, w1, actor),
      choices |-> IF raises(d, w1, actor) = "" THEN generate_choices(d, w1, actor) ELSE <<>>]
     : w1 \in IF prepares(d) = 0 THEN {w}
              ELSE {[w EXCEPT !.actors[actor] = b] : b \in prepare_deck(w.actors[actor], prepares(d))}}

(***************************************************************************)
(* Effects that only change the world: the result of effect(state), as the *)
(* set of worlds it can leave (a shuffle has several outcomes).            *)
(***************************************************************************)
RECURSIVE enact_simple(_, _)
RECURSIVE play_treasures(_, _, _)

\* a deterministic Effect applied to w
apply(w, e) ==
    CASE e.f = "add_action" -> add_action(w, e.n)
      [] e.f = "add_buy" -> add_buy(w, e.n)
      [] e.f = "add_coin" -> add_coin(w, e.n)
      [] e.f = "add_merchant_silver_bonus" -> add_merchant_silver_bonus(w)
      [] e.f = "add_silver" -> add_silver(w)
      [] e.f = "end_phase" -> end_phase(w, e.actor, e.phase)
      [] e.f = "gain" -> gain(w, e.actor, e.piece, e.destination)
      [] e.f = "buy_piece" -> buy_piece(w, e.actor, e.piece, e.destination)
      [] e.f = "swap_top_cards_of_deck" -> swap_top_cards_of_deck(w, e.actor)
      [] e.f = "trash" -> trash(w, e.actor, e.piece, e.source)
      [] e.f = "trash_pieces" -> trash_pieces(w, e.actor, e.pieces, e.source)
      [] e.f = "reveal" -> reveal(w, e.actor, e.piece)
      [] e.f = "do_nothing" -> do_nothing(w, e.actor)
      [] e.f = "put" -> put(w, e.actor, e.piece, e.destination, e.source)
      [] e.f = "set_aside" -> set_aside(w, e.actor, e.piece, e.source)
      [] e.f = "topdeck" -> topdeck(w, e.actor, e.piece, e.source)
      [] e.f = "discard_piece" -> discard_piece(w, e.actor, e.piece, e.source)
      [] e.f = "discard_pieces" -> discard_pieces(w, e.actor, e.pieces, e.source)
      [] e.f = "discard_zone" -> discard_zone(w, e.actor, e.source)
      [] e.f = "play_treasures" -> play_treasures(w, e.actor, e.pieces)
      [] OTHER -> w

\* enact(state, effects) for a list of deterministic Effects
enact_simple(w, effects) ==
    IF effects = <<>> \/ w.exc # "" THEN w
    ELSE enact_simple(apply(w, Head(effects)), Tail(effects))

play_treasures(w, actor, pieces) ==
    IF w.exc # "" THEN w
    ELSE IF pieces = <<>> THEN end_phase(w, actor, "TREASURE_PHASE")
    ELSE LET w1 == transfer_piece(w, Head(pieces), ZoneOf(actor, "PLAY"), ZoneOf(actor, "HAND"))
         IN  play_treasures(enact_simple(w1, simple_effects(Head(pieces).type)),
                            actor, Tail(pieces))

DrawEffects == {"draw", "add_card"}

WorldEffects ==
    {"add_action", "add_buy", "add_coin", "add_merchant_silver_bonus", "add_silver",
     "end_phase", "gain", "buy_piece", "swap_top_cards_of_deck", "trash",
     "trash_pieces", "reveal", "do_nothing", "put", "set_aside", "topdeck",
     "discard_piece", "discard_pieces", "discard_zone", "play_treasures"}
    \cup DrawEffects

\* Effect.__call__(state): every world the call can leave
call_effect(w, e) ==
    CASE e.f = "draw" -> draw(w, e.actor, e.n)
      [] e.f = "add_card" -> add_card(w, e.n)
      [] OTHER -> {apply(w, e)}

\* resolve_effects(state, actor, piece) as the Effects it goes through
resolve_effects(actor, piece) ==
    simple_effects(piece.type)
    \o (IF decision(piece.type) # ""
        THEN <<Initiate(actor, decision(piece.type))>>
        ELSE <<>>)

(***************************************************************************)
(* Rules / heuristics: the ranking of players and the what-if evaluation   *)
(* of an Acquisition.                                                      *)
(***************************************************************************)
RECURSIVE without(_, _)
\* the list s with one occurrence of every element of the list xs removed
without(s, xs) ==
    IF xs = <<>> THEN s
    ELSE without(IF IndexOf(s, Head(xs)) = 0 THEN s ELSE RemoveAt(s, IndexOf(s, Head(xs))),
                 Tail(xs))

\* Actor.collection: every piece the actor owns, with the scratch lists applied
collection(a) ==
    without(a.HAND \o a.DECK \o a.DISCARD \o a.ASIDE \o a.PLAY \o a.include, a.exclude)

victory_points(a) == SumSeq(MapSeq(collection(a), LAMBDA x : points(x.type)))

\* Actor.__lt__: a ranks below b
lt(a, b) ==
    LET vp_a == victory_points(a)
        vp_b == victory_points(b)
    IN  vp_a < vp_b \/ (vp_a = vp_b /\ a.n_turns_played > b.n_turns_played)

\* would_defeat that a tie satisfies
would_defeat_on_tie(player, opponent) == ~lt(player, opponent)

would_defeat(player, opponent) == lt(opponent, player) /\ ~lt(player, opponent)

would_defeat_or_tie(player, opponent) == ~lt(player, opponent)

modify_collection(a, acquisition) ==
    [a EXCEPT !.include = Append(@, acquisition.gained_piece),
              !.exclude = IF acquisition.lost_piece # NoPiece
                          THEN Append(@, acquisition.lost_piece) ELSE @]

\* revert_collection that clears include only
revert_collection_include_only(a) == [a EXCEPT !.include = <<>>]

revert_collection(a) == [a EXCEPT !.include = <<>>, !.exclude = <<>>]

AcquisitionClasses == {"Acquisition", "Purchase", "DependentAcquisition"}

\* the ranking against every opponent of the player in a call of would_win or
\* would_win_outright
would_win_result(fn, acts, player) ==
    \A i \in DOMAIN opponents(player) :
        IF fn = "would_win_outright"
        THEN would_defeat(acts[player], acts[opponents(player)[i]])
        ELSE would_defeat_or_tie(acts[player], acts[opponents(player)[i]])

\* the value would_win_outright(player, acquisition) returns: the ranking with
\* the scratch lists of the player filled
would_win_outright(acts, player, acquisition) ==
    would_win_result("would_win_outright",
                     [acts EXCEPT ![player] = modify_collection(@, acquisition)], player)

would_win(acts, player, acquisition) ==
    would_win_result("would_win",
                     [acts EXCEPT ![player] = modify_collection(@, acquisition)], player)

\* the classes a Consequence of class cls is an instance of
Superclasses(cls) ==
    CASE cls \in {"Purchase", "DependentAcquisition"} -> {cls, "Acquisition", "Consequence"}
      [] OTHER -> {cls, "Consequence"}

isinstance(c, type) == type \in Superclasses(c.cls)

\* the position in types of the first type c is an instance of; the last
\* position, the catch-all, when there is none
first_type(types, c) ==
    IF \E i \in DOMAIN types : isinstance(c, types[i])
    THEN CHOOSE i \in DOMAIN types :
             isinstance(c, types[i]) /\ \A j \in 1 .. (i - 1) : ~isinstance(c, types[j])
    ELSE Len(types)

\* classify(types, items): one list per type, each item in the list of the
\* first type it is an instance of
classify(types, items) ==
    [i \in DOMAIN types |-> SelectSeq(items, LAMBDA c : first_type(types, c) = i)]

\* classify_consequences with Acquisition ahead of its subclasses
classify_consequences_acquisition_first(consequences) ==
    classify(<<"PassOption", "NullOption", "Acquisition", "Purchase",
               "DependentAcquisition", "Consequence">>, consequences)

classify_consequences(consequences) ==
    classify(<<"PassOption", "NullOption", "Purchase", "DependentAcquisition",
               "Acquisition", "Consequence">>, consequences)

extract_acquisitions(consequences) ==
    classify(<<"PassOption", "NullOption", "Acquisition", "Consequence">>, consequences)

\* State.acquisition_ends_game: gaining the piece empties the Province pile or
\* a third pile
acquisition_ends_game(st, acquisition) ==
    LET gained == acquisition.gained_piece IN
    /\ Len(st.piles[total_order_index(gained.type) + 1]) = 1
    /\ (is_province(gained.type) \/ st.n_empty_piles >= 2)

\* evaluate_acquisitions that takes a tie for an outright win
evaluate_acquisitions_tie_wins(st, acts, player, acquisitions) ==
    LET by_end == partition(LAMBDA a : acquisition_ends_game(st, a), acquisitions)
        by_win == partition(LAMBDA a : would_win(acts, player, a), by_end[1])
        by_tie == partition(LAMBDA a : would_win(acts, player, a), by_win[2])
    IN  <<by_win[1], by_tie[1], by_tie[2], by_end[2]>>

\* evaluate_acquisitions(player, acquisitions): <<wins, ties, losses, neutrals>>
evaluate_acquisitions(st, acts, player, acquisitions) ==
    LET by_end == partition(LAMBDA a : acquisition_ends_game(st, a), acquisitions)
        by_win == partition(LAMBDA a : would_win_outright(acts, player, a), by_end[1])
        by_tie == partition(LAMBDA a : would_win(acts, player, a), by_win[2])
    IN  <<by_win[1], by_tie[1], by_tie[2], by_end[2]>>

(***************************************************************************)
(* The state of one game session during one turn.                          *)
(***************************************************************************)
VARIABLES
    state,      \* the State object: counters, flags, piles, TRASH
    actors,     \* the zones and scratch lists of every player
    agenda,     \* the Effects and Processes still to be applied, innermost first
    offered,    \* the choices handed to the decider by request_input
    immunity,   \* immunity[p]: the flag of the Attack instance that targets p
    exc,        \* the exception that ended the resolution, "" if none
    proc,       \* the Process last called: its class, target, the target's
                \* zones when it was called and its main-loop iterations
    hyp         \* the call of would_win / would_win_outright in progress

vars == <<state, actors, agenda, offered, immunity, exc, proc, hyp>>

W == [state |-> state, actors |-> actors, exc |-> ""]

NoOffer ==
    [pending |-> FALSE, actor |-> 0, decision |-> "", choices |-> <<>>, picked |-> 0,
     announced |-> <<>>]

(***************************************************************************)
(* Initial states: the start of a turn of any player in the first round,   *)
(* in one of a few deals of the cards; the players seated before the       *)
(* current one have played their turn of the round.                        *)
(***************************************************************************)
Mk(types, base) == [i \in DOMAIN types |-> Piece(types[i], base + i)]

\* the zones of player p at the start of a turn
Actor(p, hand, deck, discard) ==
    [HAND |-> Mk(hand, 100 * (p + 1)),
     DECK |-> Mk(deck, 100 * (p + 1) + 20),
     DISCARD |-> Mk(discard, 100 * (p + 1) + 40),
     ASIDE |-> <<>>, PLAY |-> <<>>,
     include |-> <<>>, exclude |-> <<>>, n_turns_played |-> 0,
     repr |-> IF p = 0 THEN "You" ELSE "Strategy"]

Scenarios ==
    {"militia", "bandit", "witch", "bureaucrat", "library", "vassal", "buy", "village",
     "mine", "remodel", "cellar", "workshop", "chapel", "harbinger", "moneylender",
     "poacher", "throneroom", "councilroom", "sentry", "artisan", "endgame",
     "cantrip", "bare_remodel", "bare_mine", "lone_remodel",
     "sentry_pair", "lone_sentry", "merchant", "lone_vassal",
     "bandit_pair"}

\* the cards of the player whose turn it is
CurrentDeal(sc, p) ==
    CASE sc = "militia" ->
             Actor(p, <<"Militia", "Copper", "Silver">>, <<"Estate", "Copper">>, <<>>)
      [] sc \in {"bandit", "bandit_pair"} ->
             Actor(p, <<"Bandit", "Copper">>, <<"Copper">>, <<>>)
      [] sc = "witch" ->
             Actor(p, <<"Witch", "Copper">>, <<"Copper">>, <<"Estate", "Silver">>)
      [] sc = "bureaucrat" ->
             Actor(p, <<"Bureaucrat", "Copper">>, <<"Copper">>, <<>>)
      [] sc = "library" ->
             Actor(p, <<"Library", "Copper", "Copper", "Estate", "Copper">>,
                   <<"Copper", "Village">>, <<"Moat", "Estate">>)
      [] sc = "vassal" ->
             Actor(p, <<"Vassal", "Copper">>, <<>>, <<"Village", "Copper">>)
      [] sc = "buy" ->
             Actor(p, <<"Gold", "Gold", "Silver">>, <<"Copper">>, <<>>)
      [] sc = "village" ->
             Actor(p, <<"Village", "Militia", "Moat">>, <<"Copper", "Estate">>, <<"Silver">>)
      [] sc = "mine" ->
             Actor(p, <<"Mine", "Copper", "Silver", "Estate">>, <<"Copper">>, <<>>)
      [] sc = "remodel" ->
             Actor(p, <<"Remodel", "Copper", "Estate">>, <<"Copper">>, <<>>)
      [] sc = "cellar" ->
             Actor(p, <<"Cellar", "Estate", "Copper", "Estate">>, <<"Silver", "Copper">>, <<"Gold">>)
      [] sc = "workshop" ->
             Actor(p, <<"Workshop", "Copper">>, <<"Copper">>, <<>>)
      [] sc = "chapel" ->
             Actor(p, <<"Chapel", "Copper", "Copper", "Estate">>, <<"Copper">>, <<>>)
      [] sc = "harbinger" ->
             Actor(p, <<"Harbinger", "Copper">>, <<"Copper">>, <<"Gold", "Estate", "Gold">>)
      [] sc = "moneylender" ->
             Actor(p, <<"Moneylender", "Copper", "Copper">>, <<"Copper">>, <<>>)
      [] sc = "poacher" ->
             Actor(p, <<"Poacher", "Copper", "Estate", "Copper">>, <<"Copper", "Gold">>, <<>>)
      [] sc = "throneroom" ->
             Actor(p, <<"ThroneRoom", "Vassal", "Village">>, <<"Copper", "Estate", "Moat">>, <<>>)
      [] sc = "councilroom" ->
             Actor(p, <<"CouncilRoom", "Copper">>, <<"Copper", "Estate">>, <<"Silver", "Copper">>)
      [] sc = "sentry" ->
             Actor(p, <<"Sentry", "Copper">>, <<"Copper", "Estate", "Silver">>, <<>>)
      [] sc = "artisan" ->
             Actor(p, <<"Artisan", "Copper">>, <<"Copper">>, <<>>)
      [] sc = "endgame" ->
             Actor(p, <<"Remodel", "Gold", "Estate", "Estate">>, <<"Copper">>, <<>>)
      [] sc = "cantrip" ->
             Actor(p, <<Cantrip, "Copper", "Estate">>, <<"Copper", "Silver">>, <<"Gold">>)
      [] sc = "bare_remodel" ->
             Actor(p, <<"Remodel", "Copper", "Gold">>, <<"Copper">>, <<>>)
      [] sc = "bare_mine" ->
             Actor(p, <<"Mine", "Copper", "Estate">>, <<"Copper">>, <<>>)
      [] sc = "lone_remodel" ->
             Actor(p, <<"Remodel">>, <<"Copper">>, <<"Estate">>)
      [] sc = "sentry_pair" ->
             Actor(p, <<"Sentry", "Copper">>, <<"Copper", "Copper", "Silver">>, <<>>)
      [] sc = "lone_sentry" ->
             Actor(p, <<"Sentry", "Copper">>, <<"Estate">>, <<>>)
      [] sc = "lone_vassal" ->
             Actor(p, <<"Vassal", "Copper">>, <<>>, <<>>)
      [] sc = "merchant" ->
             Actor(p, <<Merchant, "Silver", "Copper", "Silver">>, <<"Gold", "Silver">>, <<>>)

\* the cards of the other players
OtherDeal(p) ==
    CASE p % 3 = 0 ->
             Actor(p, <<"Copper", "Estate", "Copper">>,
                   <<"Copper", "Silver", "Gold">>, <<"Estate">>)
      [] p % 3 = 1 ->
             Actor(p, <<"Moat", "Copper", "Copper", "Estate", "Estate">>,
                   <<"Copper", "Copper">>, <<>>)
      [] p % 3 = 2 ->
             Actor(p, <<"Copper", "Silver", "Estate", "Copper", "Duchy">>,
                   <<"Silver">>, <<"Estate">>)

\* the cards of the other players in deal sc: in "bandit_pair" two Silvers are
\* on top of every DECK
VictimDeal(sc, p) ==
    IF sc = "bandit_pair"
    THEN Actor(p, <<"Copper", "Estate">>, <<"Copper", "Silver", "Silver">>, <<>>)
    ELSE OtherDeal(p)

\* the number of copies in the Supply pile of type t
Stock(sc, t) ==
    IF sc \in {"buy", "bare_remodel", "bare_mine"} THEN (IF t = "Province" THEN 1 ELSE 0)
    ELSE IF sc = "poacher" /\ t \in {"Curse", "Estate"} THEN 0
    ELSE IF sc = "endgame" THEN (IF t \in {"Sentry", "Artisan"} THEN 0 ELSE 1)
    ELSE IF t = "Curse" THEN 1
    ELSE PileSize

Supply(sc) ==
    [i \in DOMAIN PieceTypes |->
        [k \in 1 .. Stock(sc, PieceTypes[i]) |-> Piece(PieceTypes[i], 1000 + 10 * i + k)]]

n_empty(piles) == Cardinality({i \in DOMAIN piles : piles[i] = <<>>})

InitialState(sc, cp) ==
    [n_action |-> 1, n_buy |-> 1, n_coin |-> 0,
     n_silver_played_this_turn |-> 0, merchant_silver_bonus |-> 0,
     need_action_phase |-> TRUE, need_treasure_phase |-> TRUE,
     need_buy_phase |-> TRUE,
     n_empty_piles |-> n_empty(Supply(sc)),
     province_pile_empty |-> (Supply(sc)[total_order_index("Province") + 1] = <<>>),
     n_total_turns_played |-> cp,
     piles |-> Supply(sc), TRASH |-> <<>>, current_player |-> cp]

NoCall == [active |-> FALSE, player |-> 0, function |-> "", acquisition |-> NullOption(0)]

NoProcess ==
    [cls |-> "", actor |-> 0, snap |-> Actor(0, <<>>, <<>>, <<>>), iters |-> 0,
     done |-> FALSE]

Init ==
    \E sc \in Scenarios, cp \in Players :
        /\ state = InitialState(sc, cp)
        /\ actors = [p \in Players |->
                         [(IF p = cp THEN CurrentDeal(sc, p) ELSE VictimDeal(sc, p))
                             EXCEPT !.n_turns_played = IF p < cp THEN 1 ELSE 0]]
        /\ agenda = <<>>
        /\ offered = NoOffer
        /\ immunity = [p \in Players |-> FALSE]
        /\ exc = ""
        /\ proc = NoProcess
        /\ hyp = NoCall

(***************************************************************************)
(* Steps.                                                                  *)
(***************************************************************************)
Running == exc = "" /\ agenda # <<>> /\ ~offered.pending

Settled == [proc EXCEPT !.done = FALSE]

\* the world w is what an Effect left: store it, and unwind on an exception
Commit(w, rest) ==
    /\ state' = w.state
    /\ actors' = w.actors
    /\ exc' = w.exc
    /\ agenda' = IF w.exc # "" THEN <<>> ELSE rest

\* the turn scheduler resolves the Decision of the phase that is still needed
phase_decision ==
    CASE state.need_action_phase -> "ActionChoices"
      [] state.need_treasure_phase -> "TreasureChoices"
      [] state.need_buy_phase -> "BuyChoices"
      [] OTHER -> ""

StartPhase ==
    /\ exc = "" /\ agenda = <<>> /\ ~offered.pending
    /\ phase_decision # ""
    /\ agenda' = <<Initiate(state.current_player, phase_decision)>>
    /\ proc' = Settled
    /\ UNCHANGED <<hyp, state, actors, offered, immunity, exc>>

\* the victims whose Attack instances generate_choices of d constructs
constructs_attacks(d, actor) ==
    IF d \in {"MilitiaChoices", "BanditChoices", "WitchChoices", "BureaucratChoices"}
    THEN Range(opponents(actor))
    ELSE {}

\* request_input, first half: expand_choices(state, actor, decision)
ExpandChoices ==
    /\ Running
    /\ Head(agenda).f = "resolve"
    /\ LET e == Head(agenda) IN
       \E o \in expand_choices(W, e.actor, e.decision) :
           /\ state' = o.w.state
           /\ actors' = o.w.actors
           /\ exc' = o.exc
           /\ agenda' = IF o.exc # "" THEN <<>> ELSE Tail(agenda)
           /\ offered' = IF o.exc # "" THEN NoOffer
                         ELSE [pending |-> TRUE, actor |-> e.actor,
                               decision |-> e.decision, choices |-> o.choices,
                               picked |-> 0, announced |-> <<>>]
           /\ immunity' = [p \in Players |->
                              IF p \in constructs_attacks(e.decision, e.actor)
                              THEN FALSE ELSE immunity[p]]
    /\ proc' = Settled
    /\ UNCHANGED hyp

\* the select of the decider itself: the decider picks the i-th of the choices
select(choices, d, i) == choices[i]

\* the description of a Consequence that announce_event displays: its class
\* and the names of its Effects
announce_event(consequence) ==
    <<consequence.cls>> \o [k \in DOMAIN consequence.effects |-> consequence.effects[k].f]

\* Echo.select that announces and returns the first of the choices
Echo_select_first(choices, d, i) ==
    [consequence |-> choices[1], announced |-> announce_event(choices[1])]

\* Echo.select: the select of the wrapped decider, then announce_event; the
\* Consequence returned and what was displayed
Echo_select(choices, d, i) ==
    LET consequence == select(choices, d, i) IN
    [consequence |-> consequence, announced |-> announce_event(consequence)]

\* request_input, second half, and the start of enact: the decider, with or
\* without Echo, selects
\* one Consequence and its Effects become the next to apply
Select ==
    /\ exc = "" /\ offered.pending /\ ~hyp.active
    /\ \E i \in DOMAIN offered.choices, echo \in BOOLEAN :
           LET r == IF echo
                    THEN Echo_select(offered.choices, offered.decision, i)
                    ELSE [consequence |-> select(offered.choices, offered.decision, i),
                          announced |-> <<>>]
           IN  /\ agenda' = r.consequence.effects
                            \o <<Return(state, actors, r.consequence)>> \o agenda
               /\ offered' = [offered EXCEPT !.pending = FALSE, !.picked = i,
                                             !.announced = r.announced]
    /\ proc' = Settled
    /\ UNCHANGED <<hyp, state, actors, immunity, exc>>

\* enact: the next Effect is one that only changes the world
CallEffect ==
    /\ Running
    /\ Head(agenda).f \in WorldEffects
    /\ \E w \in call_effect(W, Head(agenda)) : Commit(w, Tail(agenda))
    /\ proc' = Settled
    /\ UNCHANGED <<hyp, offered, immunity>>

\* play_piece that never pays an action
PlayPiece_free ==
    /\ Running
    /\ Head(agenda).f = "play_piece"
    /\ LET e == Head(agenda)
           w2 == transfer_piece(W, e.piece, ZoneOf(e.actor, "PLAY"),
                                Place(e.actor, e.source, "HAND"))
       IN  Commit(w2, resolve_effects(e.actor, e.piece) \o Tail(agenda))
    /\ proc' = Settled
    /\ UNCHANGED <<hyp, offered, immunity>>

\* enact: the next Effect is play_piece
PlayPiece ==
    /\ Running
    /\ Head(agenda).f = "play_piece"
    /\ LET e == Head(agenda)
           w1 == IF e.free THEN W ELSE add_action(W, -1)
           w2 == transfer_piece(w1, e.piece, ZoneOf(e.actor, "PLAY"),
                                Place(e.actor, e.source, "HAND"))
       IN  Commit(w2, resolve_effects(e.actor, e.piece) \o Tail(agenda))
    /\ proc' = Settled
    /\ UNCHANGED <<hyp, offered, immunity>>

\* enact: the next Effect is resolve_effects (the second resolution of a card
\* doubled by Throne Room)
ResolveEffects ==
    /\ Running
    /\ Head(agenda).f = "resolve_effects"
    /\ agenda' = resolve_effects(Head(agenda).actor, Head(agenda).piece) \o Tail(agenda)
    /\ proc' = Settled
    /\ UNCHANGED <<hyp, state, actors, offered, immunity, exc>>

\* enact: the next Effect is Update(process.mark_immunity)
MarkImmunity ==
    /\ Running
    /\ Head(agenda).f = "mark_immunity"
    /\ immunity' = [immunity EXCEPT ![Head(agenda).actor] = TRUE]
    /\ agenda' = Tail(agenda)
    /\ proc' = Settled
    /\ UNCHANGED <<hyp, state, actors, offered, exc>>

\* Process.__call__ that runs main once before the setup
ProcessSetup_after_main ==
    /\ Running
    /\ Head(agenda).f \in ProcessClasses /\ Head(agenda).pc = "call"
    /\ LET e == Head(agenda) IN
       /\ agenda' = <<main_effect(e.f, e.actor)>> \o setup_effect(e.f, e.actor)
                    \o <<[e EXCEPT !.pc = "loop"]>> \o Tail(agenda)
       /\ proc' = [cls |-> e.f, actor |-> e.actor, snap |-> actors[e.actor],
                   iters |-> 0, done |-> FALSE]
    /\ UNCHANGED <<hyp, state, actors, offered, immunity, exc>>

\* Process.__call__: setup
ProcessSetup ==
    /\ Running
    /\ Head(agenda).f \in ProcessClasses /\ Head(agenda).pc = "call"
    /\ LET e == Head(agenda) IN
       /\ agenda' = setup_effect(e.f, e.actor) \o <<[e EXCEPT !.pc = "loop"]>> \o Tail(agenda)
       /\ proc' = [cls |-> e.f, actor |-> e.actor, snap |-> actors[e.actor],
                   iters |-> 0, done |-> FALSE]
    /\ UNCHANGED <<hyp, state, actors, offered, immunity, exc>>

\* Process.__call__: the antecedent holds, main runs once more
ProcessMain ==
    /\ Running
    /\ Head(agenda).f \in ProcessClasses /\ Head(agenda).pc = "loop"
    /\ LET e == Head(agenda) IN
       /\ antecedent(e.f, W, e.actor, immunity[e.actor])
       /\ agenda' = <<main_effect(e.f, e.actor)>> \o agenda
       /\ proc' = [proc EXCEPT !.iters = Min(@ + 1, MaxIters)]
    /\ UNCHANGED <<hyp, state, actors, offered, immunity, exc>>

\* Process.__call__: the antecedent fails, teardown starts
ProcessTeardown ==
    /\ Running
    /\ Head(agenda).f \in ProcessClasses /\ Head(agenda).pc = "loop"
    /\ LET e == Head(agenda) IN
       /\ ~antecedent(e.f, W, e.actor, immunity[e.actor])
       /\ agenda' = teardown_effect(e.f, e.actor) \o <<[e EXCEPT !.pc = "clear"]>>
                    \o Tail(agenda)
    /\ UNCHANGED <<hyp, state, actors, offered, immunity, exc, proc>>

\* Process.teardown without clear_internal_state
ProcessClear_keeps_immunity ==
    /\ Running
    /\ Head(agenda).f \in ProcessClasses /\ Head(agenda).pc = "clear"
    /\ agenda' = Tail(agenda)
    /\ proc' = [proc EXCEPT !.done = TRUE]
    /\ UNCHANGED <<hyp, state, actors, offered, immunity, exc>>

\* Process.teardown: clear_internal_state, and the Process returns
ProcessClear ==
    /\ Running
    /\ Head(agenda).f \in ProcessClasses /\ Head(agenda).pc = "clear"
    /\ LET e == Head(agenda) IN
       /\ immunity' = IF e.f \in AttackClasses
                      THEN [immunity EXCEPT ![e.actor] = FALSE]
                      ELSE immunity
       /\ agenda' = Tail(agenda)
    /\ proc' = [proc EXCEPT !.done = TRUE]
    /\ UNCHANGED <<hyp, state, actors, offered, exc>>

\* enact has applied every Effect of the Consequence and returns to resolve
EnactReturn ==
    /\ Running
    /\ Head(agenda).f = "return"
    /\ agenda' = Tail(agenda)
    /\ proc' = Settled
    /\ UNCHANGED <<hyp, state, actors, offered, immunity, exc>>

\* would_win / would_win_outright(player, acquisition), called by the decider
\* on an Acquisition it is offered: modify_collection
WouldWinCall ==
    /\ exc = "" /\ offered.pending /\ ~hyp.active
    /\ \E i \in DOMAIN offered.choices, fn \in {"would_win", "would_win_outright"} :
           /\ offered.choices[i].cls \in AcquisitionClasses
           /\ hyp' = [active |-> TRUE, player |-> offered.actor, function |-> fn,
                      acquisition |-> offered.choices[i]]
           /\ actors' = [actors EXCEPT ![offered.actor] =
                             modify_collection(@, offered.choices[i])]
    /\ proc' = Settled
    /\ UNCHANGED <<state, agenda, offered, immunity, exc>>

\* would_win / would_win_outright: the ranking is evaluated (would_win_result is
\* what the decider gets back), revert_collection runs and the call returns
WouldWinReturn ==
    /\ hyp.active
    /\ actors' = [actors EXCEPT ![hyp.player] = revert_collection(@)]
    /\ hyp' = NoCall
    /\ UNCHANGED <<state, agenda, offered, immunity, exc, proc>>

\* would_win / would_win_outright: the ranking of the players (Actor.__lt__)
\* raises; nothing catches the exception, so the call is left without
\* revert_collection and the exception ends the resolution
WouldWinRaise ==
    /\ hyp.active
    /\ hyp' = NoCall
    /\ exc' = "Exception"
    /\ agenda' = <<>>
    /\ offered' = [offered EXCEPT !.pending = FALSE]
    /\ UNCHANGED <<state, actors, immunity, proc>>

Next ==
    \/ StartPhase
    \/ ExpandChoices
    \/ Select
    \/ CallEffect
    \/ EnactReturn
    \/ PlayPiece
    \/ ResolveEffects
    \/ MarkImmunity
    \/ ProcessSetup
    \/ ProcessMain
    \/ ProcessTeardown
    \/ ProcessClear
    \/ WouldWinCall
    \/ WouldWinReturn
    \/ WouldWinRaise

Spec == Init /\ [][Next]_vars

\* a step can be taken: a call is on the agenda, a decider holds choices, or
\* the turn needs a phase (this is ENABLED <<Next>>_vars, written as a state
\* predicate)
CanStep == exc = "" /\ (agenda # <<>> \/ offered.pending \/ phase_decision # "")

\* the scheduling of the engine: it is single-threaded, so the call on top of
\* the agenda runs (weak fairness of Next, WF_vars(Next), with its enabling
\* condition written out), and a decider asked to select does select
FairSpec ==
    /\ Spec
    /\ ([]<>(~CanStep) \/ []<><<Next>>_vars)
    /\ SF_vars(Select)

(***************************************************************************)
(* Properties.                                                             *)
(***************************************************************************)
Zones(a) == <<a.HAND, a.DECK, a.DISCARD, a.PLAY, a.ASIDE>>

\* the places a piece can be in: the zones of every player, the piles, TRASH
Places(st, acts) ==
    {acts[p][z] : p \in Players, z \in Range(ZONE_NAMES)}
    \cup {st.piles[i] : i \in DOMAIN st.piles} \cup {st.TRASH}

AllPieces(st, acts) == UNION {Range(place) : place \in Places(st, acts)}

\* the number of cards, place by place
PieceCount(st, acts) ==
    SumSeq([i \in 1 .. NPlayers |-> SumSeq([k \in 1 .. 5 |-> Len(Zones(acts[i - 1])[k])])])
    + SumSeq([i \in DOMAIN st.piles |-> Len(st.piles[i])]) + Len(st.TRASH)

HasMoat(hand) == \E i \in DOMAIN hand : hand[i].type = "Moat"

\* C1: every Piece instance is in exactly one of the players' zones, the
\* Supply piles and TRASH, and no step creates, destroys or doubles one.
C1_Conservation ==
    /\ [](PieceCount(state, actors) = Cardinality(AllPieces(state, actors)))
    /\ [][AllPieces(state', actors') = AllPieces(state, actors)]_vars

C1_Witness ==
    /\ exc = "" /\ agenda = <<>>
    /\ state.TRASH # <<>>
    /\ \E p \in Players : actors[p].PLAY # <<>> /\ actors[p].DISCARD # <<>>

\* C2: generate_choices of every Decision returns a list with at least one
\* Consequence: it neither raises nor returns an empty list.
C2_NonEmptyChoices ==
    /\ exc \notin {"NameError", "TypeError"}
    /\ offered.pending => Len(offered.choices) >= 1

ProcessCalled ==
    agenda # <<>> /\ Head(agenda).f \in ProcessClasses /\ Head(agenda).pc = "call"

\* C3: every Process that is called terminates: its main loop stops and its
\* teardown is reached, whatever the deciders select.  (A call that an
\* exception of generate_choices abandons is counted as ended here.)
C3_ProcessTerminates == ProcessCalled ~> (proc.done \/ exc # "")

Replenished(a, b) ==
    \/ b.DECK = a.DECK /\ b.DISCARD = a.DISCARD
    \/ /\ a.DISCARD # <<>> /\ b.DISCARD = <<>>
       /\ Len(b.DECK) = Len(a.DECK) + Len(a.DISCARD)
       /\ SubSeq(b.DECK, Len(a.DISCARD) + 1, Len(b.DECK)) = a.DECK
       /\ Range(SubSeq(b.DECK, 1, Len(a.DISCARD))) = Range(a.DISCARD)

AttackReturned == proc.done /\ proc.cls \in AttackClasses

\* C5: a victim with a Moat in HAND is offered exactly one Consequence by
\* ImmunityProcedure, revealing the Moat and marking immunity; the Attack then
\* returns after zero main-loop iterations with the victim's zones unchanged.
C5_MoatImmunity ==
    /\ (offered.pending /\ offered.decision = "ImmunityProcedure"
        /\ HasMoat(actors[offered.actor].HAND))
       => /\ Len(offered.choices) = 1
          /\ Len(offered.choices[1].effects) = 2
          /\ offered.choices[1].effects[1].f = "reveal"
          /\ offered.choices[1].effects[1].piece.type = "Moat"
          /\ offered.choices[1].effects[2] = Update(offered.actor)
    /\ (AttackReturned /\ HasMoat(proc.snap.HAND))
       => /\ proc.iters = 0
          /\ Zones(actors[proc.actor]) = Zones(proc.snap)

C5_Witness == AttackReturned /\ HasMoat(proc.snap.HAND)

MilitiaReturned == proc.done /\ proc.cls = "MilitiaAttack" /\ ~HasMoat(proc.snap.HAND)

\* C6: a MilitiaAttack on a victim without Moat and with h > 3 cards in HAND
\* leaves 3 cards in HAND and moves h - 3 cards from HAND to the end of the
\* victim's DISCARD, one per main-loop iteration; with h <= 3 nothing changes.
C6_MilitiaDiscards ==
    MilitiaReturned =>
        LET old == proc.snap
            new == actors[proc.actor]
            h == Len(old.HAND)
        IN  IF h > 3
            THEN /\ Len(new.HAND) = 3
                 /\ proc.iters = h - 3
                 /\ Len(new.DISCARD) = Len(old.DISCARD) + (h - 3)
                 /\ SubSeq(new.DISCARD, 1, Len(old.DISCARD)) = old.DISCARD
                 /\ Range(new.HAND) \cup Range(new.DISCARD)
                        = Range(old.HAND) \cup Range(old.DISCARD)
                 /\ Range(new.HAND) \subseteq Range(old.HAND)
                 /\ new.DECK = old.DECK /\ new.PLAY = old.PLAY /\ new.ASIDE = old.ASIDE
            ELSE Zones(new) = Zones(old) /\ proc.iters = 0

C6_Witness == MilitiaReturned /\ Len(proc.snap.HAND) > 3

C6_WitnessSmallHand == MilitiaReturned /\ Len(proc.snap.HAND) <= 3

AttackChoices == {"MilitiaChoices", "BanditChoices", "WitchChoices", "BureaucratChoices"}

AttackOf(d) ==
    CASE d = "MilitiaChoices" -> "MilitiaAttack"
      [] d = "BanditChoices" -> "BanditAttack"
      [] d = "WitchChoices" -> "WitchAttack"
      [] d = "BureaucratChoices" -> "BureaucratAttack"

\* C7: Militia, Bandit, Witch and Bureaucrat offer exactly one Consequence, and
\* the Attack processes in it are one per opponent, the player right after the
\* actor first, then on in turn order, wrapping around.
C7_OneAttackPerOpponent ==
    (offered.pending /\ offered.decision \in AttackChoices) =>
        /\ Len(offered.choices) = 1
        /\ LET attacks == SelectSeq(offered.choices[1].effects,
                                    LAMBDA e : e.f \in ProcessClasses)
           IN  /\ Len(attacks) = NPlayers - 1
               /\ \A i \in 1 .. (NPlayers - 1) :
                      /\ attacks[i].f = AttackOf(offered.decision)
                      /\ attacks[i].pc = "call"
                      /\ attacks[i].actor = (offered.actor + i) % NPlayers

\* the actor whose attack is offered has a player before it in seating order,
\* so that the turn order of its opponents wraps around
C7_Witness ==
    offered.pending /\ offered.decision \in AttackChoices /\ offered.actor > 0

ProvincePile(st) == st.piles[total_order_index("Province") + 1]

\* the Province pile holds one card and is the only pile that is not empty
OnlyOneProvince(st) ==
    /\ Len(ProvincePile(st)) = 1
    /\ \A i \in DOMAIN st.piles : i # total_order_index("Province") + 1 => st.piles[i] = <<>>

BuysLastProvince ==
    /\ CallEffect
    /\ Head(agenda).f = "buy_piece"
    /\ state.n_coin = 8 /\ state.n_buy = 1 /\ OnlyOneProvince(state)

\* C8: with n_coin = 8, n_buy = 1 and one Province as the whole Supply,
\* BuyChoices offers exactly PassOption and Purchase(Province); enacting the
\* Purchase puts the Province on the actor's DISCARD, sets province_pile_empty
\* and makes game_over true.
C8_BuyLastProvince ==
    /\ []((offered.pending /\ offered.decision = "BuyChoices"
           /\ state.n_coin = 8 /\ state.n_buy = 1 /\ OnlyOneProvince(state))
          => offered.choices = <<PassOption(offered.actor, "BUY_PHASE"),
                                 Purchase(offered.actor, ProvincePile(state)[1])>>)
    /\ [][BuysLastProvince =>
            /\ ProvincePile(state') = <<>>
            /\ actors'[Head(agenda).actor].DISCARD
                   = Append(actors[Head(agenda).actor].DISCARD, ProvincePile(state)[1])
            /\ state'.province_pile_empty
            /\ game_over(state')]_vars

C8_Witness ==
    /\ state.province_pile_empty
    /\ offered.decision = "BuyChoices" /\ offered.picked = 2
    /\ state.n_coin = 0
    /\ \E i \in DOMAIN actors[state.current_player].DISCARD :
           actors[state.current_player].DISCARD[i].type = "Province"

PhaseOf(d) ==
    CASE d = "ActionChoices" -> "ACTION_PHASE"
      [] d = "TreasureChoices" -> "TREASURE_PHASE"
      [] d = "BuyChoices" -> "BUY_PHASE"

\* C9: the first choice of ActionChoices, TreasureChoices and BuyChoices is the
\* PassOption of the phase; BuyChoices offers a Purchase of a pile exactly when
\* n_buy > 0, the pile is not empty and its piece costs at most n_coin, and it
\* offers only the PassOption when n_buy is not positive.
C9_PhaseChoices ==
    /\ (offered.pending /\ offered.decision \in {"ActionChoices", "TreasureChoices", "BuyChoices"})
       => offered.choices[1] = PassOption(offered.actor, PhaseOf(offered.decision))
    /\ (offered.pending /\ offered.decision = "BuyChoices")
       => /\ \A j \in 2 .. Len(offered.choices) :
                 /\ offered.choices[j].cls = "Purchase"
                 /\ \E i \in DOMAIN state.piles :
                        /\ state.piles[i] # <<>>
                        /\ offered.choices[j].gained_piece = Last(state.piles[i])
          /\ \A i \in DOMAIN state.piles :
                 (\E j \in 2 .. Len(offered.choices) :
                      /\ state.piles[i] # <<>>
                      /\ offered.choices[j] = Purchase(offered.actor, Last(state.piles[i])))
                 <=> (/\ state.n_buy > 0
                      /\ state.piles[i] # <<>>
                      /\ cost(PieceTypes[i]) <= state.n_coin)
          /\ state.n_buy <= 0 => Len(offered.choices) = 1

\* BuyChoices is offered with no buy left; and with a buy, a pile that costs
\* exactly n_coin and a pile that costs more
C9_WitnessNoBuy ==
    /\ offered.pending /\ offered.decision = "BuyChoices"
    /\ state.n_buy = 0 /\ state.n_coin >= 2

C9_Witness ==
    /\ offered.pending /\ offered.decision = "BuyChoices"
    /\ state.n_buy = 1
    /\ \E i, j \in DOMAIN state.piles :
           /\ state.piles[i] # <<>> /\ cost(PieceTypes[i]) = state.n_coin
           /\ state.piles[j] # <<>> /\ cost(PieceTypes[j]) > state.n_coin

\* C10: a call of would_win or would_win_outright changes no zone of any
\* player, no Supply pile and not TRASH, and the include and exclude lists of
\* every player are empty whenever no such call is in progress (a call that
\* has returned; one that an exception of the ranking ended is C11).
C10_HypotheticalIsolation ==
    /\ []((~hyp.active /\ exc # "Exception") =>
             \A p \in Players : actors[p].include = <<>> /\ actors[p].exclude = <<>>)
    /\ [][(WouldWinCall \/ WouldWinReturn) =>
             /\ \A p \in Players : Zones(actors'[p]) = Zones(actors[p])
             /\ state'.piles = state.piles
             /\ state'.TRASH = state.TRASH]_vars

\* C11: when the ranking inside would_win or would_win_outright raises after
\* the scratch lists were filled, include and exclude of the player are empty
\* once control has left the function.
C11_RevertOnFailure ==
    exc = "Exception" =>
        \A p \in Players : actors[p].include = <<>> /\ actors[p].exclude = <<>>

\* a call is in progress with both scratch lists filled
C10_Witness ==
    /\ hyp.active
    /\ actors[hyp.player].include # <<>>
    /\ actors[hyp.player].exclude # <<>>

OfClass(items, classes) == SelectSeq(items, LAMBDA c : c.cls \in classes)

\* C12: classify_consequences puts every Consequence in exactly one of six
\* lists (Pass, Null, Purchase, DependentAcquisition, Acquisition, generic),
\* the first type in that order it is an instance of: a Purchase or a
\* DependentAcquisition is never in the Acquisition list, nothing is dropped,
\* and every list keeps the order of the input.
C12_ClassifyConsequences ==
    offered.pending =>
        LET buckets == classify_consequences(offered.choices) IN
        /\ Len(buckets) = 6
        /\ buckets[1] = OfClass(offered.choices, {"PassOption"})
        /\ buckets[2] = OfClass(offered.choices, {"NullOption"})
        /\ buckets[3] = OfClass(offered.choices, {"Purchase"})
        /\ buckets[4] = OfClass(offered.choices, {"DependentAcquisition"})
        /\ buckets[5] = OfClass(offered.choices, {"Acquisition"})
        /\ buckets[6] = OfClass(offered.choices, {"Consequence", "Act"})
        /\ SumSeq([i \in 1 .. 6 |-> Len(buckets[i])]) = Len(offered.choices)

\* the choices hold a NullOption and DependentAcquisitions
C12_Witness ==
    /\ offered.pending
    /\ \E i, j \in DOMAIN offered.choices :
           /\ offered.choices[i].cls = "NullOption"
           /\ offered.choices[j].cls = "DependentAcquisition"

C12_WitnessPurchase ==
    /\ offered.pending
    /\ \E i, j \in DOMAIN offered.choices :
           offered.choices[i].cls = "PassOption" /\ offered.choices[j].cls = "Purchase"

\* the acquisitions offered to a decider that is not inside would_win
OfferedAcquisitions ==
    IF offered.pending /\ ~hyp.active /\ exc = ""
    THEN OfClass(offered.choices, AcquisitionClasses)
    ELSE <<>>

Evaluated == evaluate_acquisitions(state, actors, offered.actor, OfferedAcquisitions)

\* C13: evaluate_acquisitions returns four lists that together hold every
\* acquisition exactly once: wins end the game and win outright, ties end the
\* game, do not win outright and would_win, losses end the game and not
\* would_win, neutrals do not end the game.
C13_EvaluateAcquisitions ==
    LET ends(a) == acquisition_ends_game(state, a)
        outright(a) == would_win_outright(actors, offered.actor, a)
        win(a) == would_win(actors, offered.actor, a)
    IN  /\ Len(Evaluated) = 4
        /\ Evaluated[1] = SelectSeq(OfferedAcquisitions, LAMBDA a : ends(a) /\ outright(a))
        /\ Evaluated[2] = SelectSeq(OfferedAcquisitions,
                                    LAMBDA a : ends(a) /\ ~outright(a) /\ win(a))
        /\ Evaluated[3] = SelectSeq(OfferedAcquisitions, LAMBDA a : ends(a) /\ ~win(a))
        /\ Evaluated[4] = SelectSeq(OfferedAcquisitions, LAMBDA a : ~ends(a))
        /\ SumSeq([i \in 1 .. 4 |-> Len(Evaluated[i])]) = Len(OfferedAcquisitions)
        /\ \A i, j \in 1 .. 4 : i # j => Range(Evaluated[i]) \cap Range(Evaluated[j]) = {}

\* a win, a tie and a loss are offered together
C13_Witness ==
    /\ OfferedAcquisitions # <<>>
    /\ Evaluated[1] # <<>> /\ Evaluated[2] # <<>> /\ Evaluated[3] # <<>>

C13_WitnessNeutral == OfferedAcquisitions # <<>> /\ Evaluated[4] # <<>>

\* the states in which a decider ranks the players: it is offered choices, or
\* it is inside would_win or would_win_outright with the scratch lists filled
RankingCalled == offered.pending \/ hyp.active

\* C14: would_defeat(a, b) holds exactly when a ranks strictly above b (more
\* victory points, or as many in fewer turns played) and
\* would_defeat_or_tie(a, b) exactly when b does not rank strictly above a; so
\* would_defeat implies would_defeat_or_tie, two players never defeat each
\* other, and with equal points and turns neither defeats and both tie; for
\* every pair of players wherever a decider ranks them.
C14_Ranking ==
    \A p, q \in Players :
        (p <= q /\ RankingCalled) =>
            LET a == actors[p]
                b == actors[q]
                vp_a == victory_points(a)
                vp_b == victory_points(b)
                a_above == vp_a > vp_b \/ (vp_a = vp_b /\ a.n_turns_played < b.n_turns_played)
                b_above == vp_b > vp_a \/ (vp_b = vp_a /\ b.n_turns_played < a.n_turns_played)
                a_defeats == would_defeat(a, b)
                b_defeats == would_defeat(b, a)
                a_ties == would_defeat_or_tie(a, b)
                b_ties == would_defeat_or_tie(b, a)
            IN  /\ a_defeats <=> a_above
                /\ b_defeats <=> b_above
                /\ a_ties <=> ~b_above
                /\ b_ties <=> ~a_above
                /\ a_defeats => a_ties
                /\ b_defeats => b_ties
                /\ ~(a_defeats /\ b_defeats)
                /\ (vp_a = vp_b /\ a.n_turns_played = b.n_turns_played)
                   => ~a_defeats /\ ~b_defeats /\ a_ties /\ b_ties

\* inside a call of would_win two players have equal points and equal turns,
\* and two others equal points and different turns
C14_Witness ==
    /\ hyp.active
    /\ \E p, q \in Players :
           /\ p # q
           /\ victory_points(actors[p]) = victory_points(actors[q])
           /\ actors[p].n_turns_played = actors[q].n_turns_played
    /\ \E p, q \in Players :
           /\ victory_points(actors[p]) = victory_points(actors[q])
           /\ actors[p].n_turns_played < actors[q].n_turns_played

\* enact is about to return to resolve
AtReturn == Running /\ Head(agenda).f = "return"

\* the Consequence that was enacted, with the state and actors before it
Enacted == Head(agenda).before[1]

\* the Act that plays the card with [+1 action, draw 1] has been enacted
PlayedCantrip ==
    /\ AtReturn
    /\ Enacted.chosen.cls = "Act"
    /\ Enacted.chosen.action.type = Cantrip

\* C15: an actor with n_action = 1 who plays, not for free, a card whose
\* simple_effects are [+1 action, draw 1] and whose decision is None has
\* n_action = 1 afterwards: one less for playing, one more by the effect.
C15_ActionsUnchangedNet ==
    PlayedCantrip => state.n_action = Enacted.state.n_action

C15_Witness == PlayedCantrip /\ Enacted.state.n_action = 1 /\ state.n_action = 1

\* every zone but those named of the actor is as it was before enact
OtherZonesUnchanged(actor, names) ==
    /\ \A z \in Range(ZONE_NAMES) \ names : actors[actor][z] = Enacted.actors[actor][z]
    /\ \A p \in Players \ {actor} : actors[p] = Enacted.actors[p]
    /\ state.piles = Enacted.state.piles
    /\ state.TRASH = Enacted.state.TRASH

\* C16 as stated: playing the card from HAND with a card in DECK makes the
\* hand one card larger and changes no other zone.
C16_HandGrows ==
    LET actor == Enacted.chosen.effects[1].actor IN
    (PlayedCantrip /\ Enacted.actors[actor].DECK # <<>>) =>
        /\ Len(actors[actor].HAND) = Len(Enacted.actors[actor].HAND) + 1
        /\ OtherZonesUnchanged(actor, {"HAND"})

\* C16: playing the card from HAND with a card in DECK moves the card from
\* HAND to PLAY and the top card of DECK to HAND, so the hand is as large as
\* before; DISCARD, ASIDE, the zones of the other players, the Supply and
\* TRASH do not change.
C16_PlayedAndDrawn ==
    LET actor == Enacted.chosen.effects[1].actor
        was == Enacted.actors[actor]
        card == Enacted.chosen.action
    IN  (PlayedCantrip /\ was.DECK # <<>>) =>
            /\ actors[actor].HAND
                   = Append(RemoveAt(was.HAND, IndexOf(was.HAND, card)), Last(was.DECK))
            /\ actors[actor].DECK = Front(was.DECK)
            /\ actors[actor].PLAY = Append(was.PLAY, card)
            /\ Len(actors[actor].HAND) = Len(was.HAND)
            /\ OtherZonesUnchanged(actor, {"HAND", "DECK", "PLAY"})

C16_Witness ==
    /\ PlayedCantrip
    /\ Enacted.actors[Enacted.chosen.effects[1].actor].DECK # <<>>
    /\ Len(actors[Enacted.chosen.effects[1].actor].PLAY) = 1

\* the non-empty Supply piles a card of type t may be exchanged for: the piece
\* costs at most delta more, and is a Treasure if treasures_only
Affordable(t, delta, treasures_only) ==
    {i \in DOMAIN state.piles :
        /\ state.piles[i] # <<>>
        /\ cost(PieceTypes[i]) <= cost(t) + delta
        /\ treasures_only => is_treasure(PieceTypes[i])}

\* the choices that trash a card of type t of the HAND of actor and gain a
\* piece of pile i
Exchanges(choices, actor, t, i) ==
    {k \in DOMAIN choices :
        /\ choices[k].cls = "DependentAcquisition"
        /\ choices[k].lost_piece.type = t
        /\ choices[k].lost_piece \in Range(actors[actor].HAND)
        /\ choices[k].gained_piece \in Range(state.piles[i])
        /\ choices[k].effects = <<EffectP("trash", actor, choices[k].lost_piece, ""),
                                  EffectP("gain", actor, choices[k].gained_piece, "")>>}

\* the choices that only trash a card of type t of the HAND of actor
TrashOnly(choices, actor, t) ==
    {k \in DOMAIN choices :
        /\ choices[k].cls = "Consequence"
        /\ Len(choices[k].effects) = 1
        /\ choices[k].effects[1].f = "trash"
        /\ choices[k].effects[1].actor = actor
        /\ choices[k].effects[1].piece.type = t
        /\ choices[k].effects[1].piece \in Range(actors[actor].HAND)}

\* choices is the cross product of the types with their affordable piles, a
\* type without one giving a single trash-only Consequence, and nothing else
CrossProduct(choices, actor, types, delta, treasures_only) ==
    /\ \A t \in types :
           IF Affordable(t, delta, treasures_only) = {}
           THEN Cardinality(TrashOnly(choices, actor, t)) = 1
           ELSE /\ TrashOnly(choices, actor, t) = {}
                /\ \A i \in Affordable(t, delta, treasures_only) :
                       Cardinality(Exchanges(choices, actor, t, i)) = 1
    /\ \A k \in DOMAIN choices :
           \E t \in types :
               \/ k \in TrashOnly(choices, actor, t)
                  /\ Affordable(t, delta, treasures_only) = {}
               \/ \E i \in Affordable(t, delta, treasures_only) :
                      k \in Exchanges(choices, actor, t, i)

HandTypes(actor) == {actors[actor].HAND[k].type : k \in DOMAIN actors[actor].HAND}

OfferedBy(d) == offered.pending /\ offered.decision = d

\* C17: RemodelChoices returns one DependentAcquisition (trash, then gain) for
\* every distinct type in HAND and every non-empty pile whose piece costs at
\* most 2 more than the type, one trash-only Consequence for a type with no
\* such pile, and one NullOption when HAND is empty.
C17_RemodelChoices ==
    OfferedBy("RemodelChoices") =>
        IF actors[offered.actor].HAND = <<>>
        THEN offered.choices = <<NullOption(offered.actor)>>
        ELSE CrossProduct(offered.choices, offered.actor, HandTypes(offered.actor), 2, FALSE)

\* two types can be exchanged for several piles each
C17_Witness ==
    /\ OfferedBy("RemodelChoices")
    /\ \E t, u \in HandTypes(offered.actor) :
           /\ t # u
           /\ Cardinality(Affordable(t, 2, FALSE)) > 1
           /\ Cardinality(Affordable(u, 2, FALSE)) > Cardinality(Affordable(t, 2, FALSE))

C17_WitnessTrashOnly ==
    /\ OfferedBy("RemodelChoices")
    /\ \E k \in DOMAIN offered.choices : offered.choices[k].cls = "Consequence"
    /\ \E k \in DOMAIN offered.choices : offered.choices[k].cls = "DependentAcquisition"

C17_WitnessEmptyHand ==
    OfferedBy("RemodelChoices") /\ actors[offered.actor].HAND = <<>>

TreasureTypes(actor) == {t \in HandTypes(actor) : is_treasure(t)}

\* C18: MineChoices returns a NullOption first and then one
\* DependentAcquisition for every distinct Treasure type in HAND and every
\* non-empty Treasure pile whose piece costs at most 3 more (one trash-only
\* Consequence for a Treasure with no such pile); no other card of HAND and no
\* other pile appears, lost_piece is the trashed card of HAND and gained_piece
\* a piece of the pile.
C18_MineChoices ==
    OfferedBy("MineChoices") =>
        /\ offered.choices # <<>>
        /\ Head(offered.choices) = NullOption(offered.actor)
        /\ CrossProduct(Tail(offered.choices), offered.actor,
                        TreasureTypes(offered.actor), 3, TRUE)

\* HAND holds two Treasure types and a card that is no Treasure, and the two
\* types differ in the piles they can be exchanged for
C18_Witness ==
    /\ OfferedBy("MineChoices")
    /\ HandTypes(offered.actor) # TreasureTypes(offered.actor)
    /\ \E t, u \in TreasureTypes(offered.actor) :
           Cardinality(Affordable(u, 3, TRUE)) > Cardinality(Affordable(t, 3, TRUE))
    /\ Len(offered.choices) > 3

C18_WitnessTrashOnly ==
    /\ OfferedBy("MineChoices")
    /\ \E k \in DOMAIN offered.choices : offered.choices[k].cls = "Consequence"

\* a DependentAcquisition of MineChoices has been enacted
MineExchanged ==
    /\ AtReturn
    /\ offered.decision = "MineChoices"
    /\ Enacted.chosen.cls = "DependentAcquisition"

\* C19: enacting a DependentAcquisition of Mine moves the trashed Treasure
\* from the HAND of the actor to TRASH and the gained Treasure from its pile
\* into the HAND of the actor.
C19_MineGainsToHand ==
    MineExchanged =>
        LET actor == offered.actor
            lost == Enacted.chosen.lost_piece
            gained == Enacted.chosen.gained_piece
            pile == total_order_index(gained.type) + 1
        IN  /\ lost \in Range(Enacted.actors[actor].HAND)
            /\ lost \notin Range(actors[actor].HAND)
            /\ state.TRASH = Append(Enacted.state.TRASH, lost)
            /\ gained \in Range(Enacted.state.piles[pile])
            /\ gained \notin Range(state.piles[pile])
            /\ gained \in Range(actors[actor].HAND)

OptionalDecisions ==
    {"MineChoices", "MoneylenderChoices", "ChapelChoices", "HarbingerChoices",
     "CellarChoices", "ThroneRoomChoices"}

\* the NullOption of an optional effect has been enacted
DeclinedOptional ==
    /\ AtReturn
    /\ offered.decision \in OptionalDecisions
    /\ Enacted.chosen.cls = "NullOption"

\* C20: the first choice of Mine, Moneylender, Chapel, Harbinger, Cellar and
\* Throne Room is a NullOption in every state, and enacting it changes no zone
\* and no counter or flag of the State.
C20_NullOptionFirst ==
    /\ (offered.pending /\ offered.decision \in OptionalDecisions) =>
           /\ offered.choices # <<>>
           /\ Head(offered.choices) = NullOption(offered.actor)
    /\ DeclinedOptional =>
           /\ Enacted.chosen = Head(offered.choices)
           /\ state = Enacted.state
           /\ actors = Enacted.actors

\* the NullOption was declined although other choices were offered
C20_Witness == DeclinedOptional /\ Len(offered.choices) > 1

\* the number of pieces of type t in the list pieces
TypeCount(pieces, t) == Cardinality({k \in DOMAIN pieces : pieces[k].type = t})

\* two lists of pieces hold the same multiset of types
SameTypes(ps, qs) ==
    \A t \in {ps[k].type : k \in DOMAIN ps} \cup {qs[k].type : k \in DOMAIN qs} :
        TypeCount(ps, t) = TypeCount(qs, t)

\* C21: ChapelChoices offers the NullOption and then trash options for the
\* combinations of 1 to 4 cards of HAND, one per multiset of types: no two
\* options trash the same multiset of types and no option trashes more than 4
\* cards.
C21_ChapelChoices ==
    OfferedBy("ChapelChoices") =>
        LET trashes == Tail(offered.choices) IN
        /\ Head(offered.choices) = NullOption(offered.actor)
        /\ \A k \in DOMAIN trashes :
               /\ trashes[k].effects[1].f = "trash_pieces"
               /\ Len(trashes[k].effects[1].pieces) \in 1 .. 4
        /\ \A j, k \in DOMAIN trashes :
               SameTypes(trashes[j].effects[1].pieces, trashes[k].effects[1].pieces)
                   => j = k

\* resolve is about to expand the choices of Decision d
Resolves(d) == Running /\ Head(agenda).f = "resolve" /\ Head(agenda).decision = d

\* what a Consequence does, as the set of its operations on pieces
Does(c) == {<<c.effects[i].f, c.effects[i].piece>> : i \in DOMAIN c.effects}

\* the choices of Sentry for the top card a and the card b below it
SentryOptions(a, b) ==
    { {<<"trash", a>>, <<"trash", b>>},
      {<<"discard_piece", a>>, <<"discard_piece", b>>},
      {<<"swap_top_cards_of_deck", NoPiece>>},
      {<<"trash", a>>, <<"discard_piece", b>>}, {<<"trash", a>>}, {<<"discard_piece", a>>},
      {<<"trash", b>>, <<"discard_piece", a>>}, {<<"trash", b>>}, {<<"discard_piece", b>>} }

\* C22: with at least two cards in DECK after replenishing, the top two of
\* distinct types, SentryChoices offers each exactly once: do nothing first,
\* trash both, discard both, swap them, and for each of the two trash it and
\* discard the other, trash it, discard it; with DECK and DISCARD empty it
\* offers exactly one NullOption.
C22_SentryChoices ==
    [][Resolves("SentryChoices") =>
          LET actor == Head(agenda).actor
              deck == actors'[actor].DECK
              n == Len(deck)
          IN  /\ (n >= 2 /\ deck[n].type # deck[n - 1].type) =>
                     /\ offered'.pending /\ offered'.decision = "SentryChoices"
                     /\ Len(offered'.choices) = 10
                     /\ Head(offered'.choices) = NullOption(actor)
                     /\ \A o \in SentryOptions(deck[n], deck[n - 1]) :
                            Cardinality({k \in DOMAIN offered'.choices :
                                            Does(offered'.choices[k]) = o}) = 1
              /\ (actors[actor].DECK = <<>> /\ actors[actor].DISCARD = <<>>) =>
                     /\ offered'.pending
                     /\ offered'.choices = <<NullOption(actor)>>]_vars

\* the cards a Consequence trashes or discards, by type; swapping two cards of
\* one type, or the only card, moves nothing
Moves(c) ==
    {<<c.effects[i].f, c.effects[i].piece.type,
       Cardinality({j \in DOMAIN c.effects :
                       /\ c.effects[j].f = c.effects[i].f
                       /\ c.effects[j].piece.type = c.effects[i].piece.type})>>
        : i \in {j \in DOMAIN c.effects :
                    c.effects[j].f \notin {"do_nothing", "swap_top_cards_of_deck"}}}

LibraryDone == proc.done /\ proc.cls = "LibraryProcess" /\ Len(proc.snap.HAND) < 7

\* the Library process of player p is between its setup and its return
InLibrary(p) ==
    \E i \in DOMAIN agenda :
        agenda[i].f = "LibraryProcess" /\ agenda[i].actor = p /\ agenda[i].pc # "call"

\* C24: when the Library process completes for an actor who started with fewer
\* than 7 cards in HAND, HAND has 7 cards or DECK is empty, and ASIDE is empty;
\* a card set aside during the process leaves ASIDE only for DISCARD, where
\* the teardown puts all of them; and the stop condition holds anew at every
\* draw decision.
C24_Library ==
    /\ [](LibraryDone =>
             /\ Len(actors[proc.actor].HAND) = 7 \/ actors[proc.actor].DECK = <<>>
             /\ actors[proc.actor].ASIDE = <<>>)
    /\ []((AtReturn /\ offered.decision = "LibraryTeardown") =>
             /\ Range(Enacted.actors[offered.actor].ASIDE)
                    \subseteq Range(actors[offered.actor].DISCARD)
             /\ actors[offered.actor].ASIDE = <<>>)
    /\ [](Resolves("LibraryProcedure") =>
             /\ Len(actors[Head(agenda).actor].HAND) < 7
             /\ actors[Head(agenda).actor].DECK \o actors[Head(agenda).actor].DISCARD # <<>>)
    /\ [][\A p \in Players :
              InLibrary(p) =>
                  Range(actors[p].ASIDE)
                      \subseteq Range(actors'[p].ASIDE) \cup Range(actors'[p].DISCARD)]_vars

\* the process ended with 7 cards in HAND after a card was set aside
C24_Witness ==
    /\ LibraryDone
    /\ Len(actors[proc.actor].HAND) = 7
    /\ \E x \in Range(actors[proc.actor].DISCARD) :
           x \in Range(proc.snap.DECK) /\ is_action(x.type)

\* the process ended because no card was left, with fewer than 7 in HAND
C24_WitnessExhausted ==
    /\ LibraryDone
    /\ Len(actors[proc.actor].HAND) < 7
    /\ actors[proc.actor].DISCARD # <<>>

\* the Consequence of PoacherChoices that discards has been enacted
PoacherDiscarded ==
    /\ AtReturn
    /\ Enacted.chosen.effects # <<>>
    /\ Enacted.chosen.effects[1].f = "resolve"
    /\ Enacted.chosen.effects[1].decision = "PoacherProcedure"

\* C25: enacting the Consequence of PoacherChoices moves min(n_empty_piles,
\* size of HAND) cards from HAND to DISCARD, one card per empty pile; with no
\* empty pile or an empty HAND the only choice is a NullOption.
C25_PoacherDiscards ==
    /\ PoacherDiscarded =>
           LET actor == Enacted.chosen.effects[1].actor
               was == Enacted.actors[actor]
               n == Min(Enacted.state.n_empty_piles, Len(was.HAND))
           IN  /\ Len(actors[actor].HAND) = Len(was.HAND) - n
               /\ Len(actors[actor].DISCARD) = Len(was.DISCARD) + n
               /\ Range(actors[actor].HAND) \subseteq Range(was.HAND)
               /\ Range(actors[actor].DISCARD) \subseteq Range(was.DISCARD) \cup Range(was.HAND)
    /\ (OfferedBy("PoacherChoices")
        /\ (state.n_empty_piles = 0 \/ actors[offered.actor].HAND = <<>>))
           => offered.choices = <<NullOption(offered.actor)>>

\* the option of Moneylender that trashes a Copper has been enacted
MoneylenderTrashed ==
    /\ AtReturn
    /\ offered.decision = "MoneylenderChoices"
    /\ Enacted.chosen.cls = "Consequence"

\* C26: MoneylenderChoices offers only the NullOption when HAND holds no
\* Copper, and otherwise the NullOption and one option that moves one Copper
\* from HAND to TRASH and adds 3 to n_coin.
C26_Moneylender ==
    /\ OfferedBy("MoneylenderChoices") =>
           IF "Copper" \in HandTypes(offered.actor)
           THEN /\ Len(offered.choices) = 2
                /\ offered.choices[1] = NullOption(offered.actor)
                /\ offered.choices[2].cls = "Consequence"
           ELSE offered.choices = <<NullOption(offered.actor)>>
    /\ MoneylenderTrashed =>
           LET was == Enacted.actors[offered.actor]
               copper == Enacted.chosen.effects[1].piece
           IN  /\ copper.type = "Copper"
               /\ copper \in Range(was.HAND)
               /\ actors[offered.actor].HAND = RemoveAt(was.HAND, IndexOf(was.HAND, copper))
               /\ state.TRASH = Append(Enacted.state.TRASH, copper)
               /\ state.n_coin = Enacted.state.n_coin + 3

\* the Consequence of TreasureChoices that plays the Treasures of HAND has
\* been enacted
TreasuresPlayed ==
    /\ AtReturn
    /\ Enacted.chosen.effects # <<>>
    /\ Enacted.chosen.effects[1].f = "play_treasures"

\* the coin a Silver adds when played in State st
SilverCoin(st) ==
    2 + (IF st.n_silver_played_this_turn = 0 THEN st.merchant_silver_bonus ELSE 0)

\* C27: within a turn the first Silver played adds 2 + merchant_silver_bonus
\* coin and every later Silver 2 coin; each Silver played adds 1 to
\* n_silver_played_this_turn and changes no zone besides the play itself.
\* Stated of add_silver applied in any state, and of the Treasures played
\* together in the Treasure phase.
C27_Silver ==
    /\ LET after == add_silver(W) IN
       /\ after.state.n_coin = state.n_coin + SilverCoin(state)
       /\ after.state.n_silver_played_this_turn = state.n_silver_played_this_turn + 1
       /\ after = [W EXCEPT !.state.n_coin = after.state.n_coin,
                            !.state.n_silver_played_this_turn = @ + 1]
    /\ TreasuresPlayed =>
           LET actor == Enacted.chosen.effects[1].actor
               played == Enacted.chosen.effects[1].pieces
               silvers == TypeCount(played, "Silver")
               was == Enacted.state
           IN  /\ state.n_silver_played_this_turn = was.n_silver_played_this_turn + silvers
               /\ state.n_coin =
                      was.n_coin + TypeCount(played, "Copper") + 3 * TypeCount(played, "Gold")
                      + (IF silvers = 0 THEN 0 ELSE SilverCoin(was) + 2 * (silvers - 1))
               /\ actors[actor].PLAY = Enacted.actors[actor].PLAY \o played
               /\ Range(actors[actor].HAND) = Range(Enacted.actors[actor].HAND) \ Range(played)
               /\ OtherZonesUnchanged(actor, {"HAND", "PLAY"})

\* three Silvers were played in a turn with a bonus of 1
C27_Witness ==
    /\ TreasuresPlayed
    /\ Enacted.state.merchant_silver_bonus = 1
    /\ Enacted.state.n_silver_played_this_turn = 0
    /\ TypeCount(Enacted.chosen.effects[1].pieces, "Silver") = 3
    /\ state.n_coin = Enacted.state.n_coin + 8

\* a choice of Throne Room that doubles an Action card has been enacted
ThroneRoomEnacted ==
    /\ AtReturn
    /\ Len(Enacted.chosen.effects) = 2
    /\ Enacted.chosen.effects[1].f = "play_piece"
    /\ Enacted.chosen.effects[2].f = "resolve_effects"

\* what the simple_effects of a card of type t add to the counter the Effect f
\* changes
Adds(t, f) ==
    SumSeq([i \in DOMAIN simple_effects(t) |->
               IF simple_effects(t)[i].f = f THEN simple_effects(t)[i].n ELSE 0])

\* C28: enacting a choice of Throne Room for an Action card A in HAND moves A
\* from HAND to PLAY once, resolves the effects of A twice and consumes no
\* action: n_action and n_coin change by twice what the effects of A add.
C28_ThroneRoom ==
    ThroneRoomEnacted =>
        LET actor == Enacted.chosen.effects[1].actor
            A == Enacted.chosen.effects[1].piece
        IN  /\ A \in Range(Enacted.actors[actor].HAND)
            /\ A \notin Range(actors[actor].HAND)
            /\ Cardinality({k \in DOMAIN actors[actor].PLAY : actors[actor].PLAY[k] = A}) = 1
            /\ state.n_coin = Enacted.state.n_coin + 2 * Adds(A.type, "add_coin")
            /\ state.n_action = Enacted.state.n_action + 2 * Adds(A.type, "add_action")

\* the choice of Vassal that plays the top card of DECK has been enacted
VassalPlayed ==
    /\ AtReturn
    /\ Len(Enacted.chosen.effects) = 1
    /\ Enacted.chosen.effects[1].f = "play_piece"
    /\ Enacted.chosen.effects[1].source = "DECK"

\* C29: VassalChoices offers one NullOption when DECK and DISCARD are both
\* empty; otherwise it offers to discard the top card of DECK and, only if
\* that card is an Action, also to play it; the play moves the card from DECK
\* to PLAY, resolves its effects and does not change n_action by itself.
C29_Vassal ==
    /\ [][Resolves("VassalChoices") =>
             LET actor == Head(agenda).actor
                 deck == actors'[actor].DECK
                 top == deck[Len(deck)]
                 discards == Consequence(<<EffectP("discard_piece", actor, top, "DECK")>>)
                 plays == Consequence(<<[EffectP("play_piece", actor, top, "DECK")
                                            EXCEPT !.free = TRUE]>>)
             IN  /\ offered'.pending /\ offered'.decision = "VassalChoices"
                 /\ offered'.choices =
                        IF actors[actor].DECK = <<>> /\ actors[actor].DISCARD = <<>>
                        THEN <<NullOption(actor)>>
                        ELSE IF is_action(top.type) THEN <<discards, plays>>
                        ELSE <<discards>>]_vars
    /\ [](VassalPlayed =>
             LET actor == Enacted.chosen.effects[1].actor
                 card == Enacted.chosen.effects[1].piece
             IN  /\ card = Last(Enacted.actors[actor].DECK)
                 /\ card \notin Range(actors[actor].DECK)
                 /\ card \in Range(actors[actor].PLAY)
                 /\ card \notin Range(Enacted.actors[actor].PLAY)
                 /\ state.n_action = Enacted.state.n_action + Adds(card.type, "add_action")
                 /\ state.n_coin = Enacted.state.n_coin + Adds(card.type, "add_coin")
                 /\ Adds(card.type, "add_card") > 0
                        => Len(actors[actor].HAND) > Len(Enacted.actors[actor].HAND))

\* Vassal played a Village from the top of DECK: two actions more, none paid
C29_Witness ==
    /\ VassalPlayed
    /\ Enacted.chosen.effects[1].piece.type = "Village"
    /\ state.n_action = Enacted.state.n_action + 2

C29_WitnessDiscardOnly ==
    /\ OfferedBy("VassalChoices")
    /\ Len(offered.choices) = 1
    /\ offered.choices[1].cls = "Consequence"

C29_WitnessNothing ==
    /\ OfferedBy("VassalChoices")
    /\ offered.choices = <<NullOption(offered.actor)>>

\* a Consequence of BanditProcedure has been enacted on the victim
BanditApplied ==
    /\ AtReturn
    /\ offered.decision = "BanditProcedure"
    /\ Enacted.chosen.cls = "Consequence"

\* the cards the victim reveals: the top two of DECK, or the only one
Revealed(deck) == {deck[i] : i \in {j \in DOMAIN deck : j > Len(deck) - 2}}

\* C30: when Bandit attacks a victim without Moat, the cards revealed from the
\* top of the DECK of the victim (two, or the only one) all leave DECK: one
\* revealed Treasure other than Copper goes to TRASH if there is any, every
\* other revealed card to the DISCARD of the victim; a victim whose only card
\* is a Copper has it discarded.
C30_Bandit ==
    /\ [][(Resolves("BanditProcedure") /\ actors'[Head(agenda).actor].DECK # <<>>) =>
             (offered'.pending /\ offered'.decision = "BanditProcedure")]_vars
    /\ [](BanditApplied =>
             LET victim == offered.actor
                 revealed == Revealed(Enacted.actors[victim].DECK)
                 trashed == revealed \cap Range(state.TRASH)
             IN  /\ revealed \cap Range(actors[victim].DECK) = {}
                 /\ Cardinality(trashed) =
                        IF \E x \in revealed : could_trash(x) THEN 1 ELSE 0
                 /\ \A x \in trashed : could_trash(x)
                 /\ revealed \ trashed \subseteq Range(actors[victim].DISCARD))

CursePile(st) == st.piles[total_order_index("Curse") + 1]

WitchReturned == proc.done /\ proc.cls = "WitchAttack" /\ ~HasMoat(proc.snap.HAND)

\* C31: WitchProcedure offers an opponent without Moat exactly the gain of a
\* Curse while the Curse pile is not empty, and a WitchAttack that has returned
\* has put one Curse at the end of the victim's DISCARD, or none when the pile
\* was empty, and changed no other zone of the victim.
C31_Witch ==
    /\ [][(Resolves("WitchProcedure") /\ CursePile(state) # <<>>) =>
             /\ offered'.pending /\ offered'.decision = "WitchProcedure"
             /\ Len(offered'.choices) = 1
             /\ offered'.choices[1].cls = "Acquisition"
             /\ offered'.choices[1].gained_piece.type = "Curse"]_vars
    /\ [](WitchReturned =>
             LET old == proc.snap
                 new == actors[proc.actor]
             IN  /\ new.HAND = old.HAND /\ new.DECK = old.DECK
                 /\ new.PLAY = old.PLAY /\ new.ASIDE = old.ASIDE
                 /\ \/ new.DISCARD = old.DISCARD
                    \/ /\ Len(new.DISCARD) = Len(old.DISCARD) + 1
                       /\ Front(new.DISCARD) = old.DISCARD
                       /\ Last(new.DISCARD).type = "Curse")

SilverPile(st) == st.piles[total_order_index("Silver") + 1]

VictoryIn(hand) == {hand[i] : i \in {j \in DOMAIN hand : is_victory(hand[j].type)}}

\* C32: the gain of BureaucratChoices puts the top Silver of the pile on top of
\* the actor's DECK, and BureaucratProcedure offers a victim who holds a Victory
\* card only choices that reveal one Victory card of HAND and put it on top of
\* DECK, and a victim who holds cards but no Victory card one choice that
\* reveals the cards of HAND and moves nothing.
C32_Bureaucrat ==
    /\ [][(Running /\ Head(agenda).f = "gain" /\ offered.decision = "BureaucratChoices") =>
             /\ Head(agenda).piece = Last(SilverPile(state))
             /\ actors'[Head(agenda).actor].DECK =
                    Append(actors[Head(agenda).actor].DECK, Head(agenda).piece)]_vars
    /\ [][(Resolves("BureaucratProcedure") /\ actors[Head(agenda).actor].HAND # <<>>) =>
             LET hand == actors[Head(agenda).actor].HAND IN
             /\ offered'.pending /\ offered'.decision = "BureaucratProcedure"
             /\ \A k \in DOMAIN offered'.choices :
                    LET c == offered'.choices[k] IN
                    IF VictoryIn(hand) # {}
                    THEN /\ Len(c.effects) = 2
                         /\ c.effects[1].f = "reveal" /\ c.effects[2].f = "topdeck"
                         /\ c.effects[1].piece = c.effects[2].piece
                         /\ c.effects[2].piece \in VictoryIn(hand)
                    ELSE /\ Len(offered'.choices) = 1
                         /\ \A i \in DOMAIN c.effects : c.effects[i].f = "reveal"
                         /\ {c.effects[i].piece : i \in DOMAIN c.effects} = Range(hand)]_vars

\* a PassOption has been enacted
Passed == AtReturn /\ Enacted.chosen.cls = "PassOption"

\* C33: enacting a PassOption clears the need_*_phase flag of its phase, sets
\* n_action to 0 in the Action phase and n_buy to 0 in the Buy phase, and
\* changes no zone, not n_coin and no other flag or counter.
C33_PassOption ==
    Passed =>
        /\ actors = Enacted.actors
        /\ LET phase == Enacted.chosen.effects[1].phase
               st == Enacted.state
           IN  state =
                 CASE phase = "ACTION_PHASE" ->
                          [st EXCEPT !.need_action_phase = FALSE, !.n_action = 0]
                   [] phase = "TREASURE_PHASE" ->
                          [st EXCEPT !.need_treasure_phase = FALSE]
                   [] phase = "BUY_PHASE" ->
                          [st EXCEPT !.need_buy_phase = FALSE, !.n_buy = 0]

C33_Witness ==
    /\ Passed
    /\ Enacted.chosen.effects[1].phase = "ACTION_PHASE"
    /\ Enacted.state.n_action > 0 /\ Enacted.state.need_action_phase

C33_WitnessBuy ==
    /\ Passed
    /\ Enacted.chosen.effects[1].phase = "BUY_PHASE"
    /\ Enacted.state.n_buy > 0 /\ Enacted.state.n_coin > 0

C33_WitnessTreasure ==
    /\ Passed
    /\ Enacted.chosen.effects[1].phase = "TREASURE_PHASE"
    /\ actors[Enacted.chosen.effects[1].actor].HAND # <<>>

\* C34: for any choices Echo.select returns the Consequence the wrapped select
\* returns, and a step of select with echoing puts on the agenda exactly what
\* the step without it does and changes neither the State nor any zone.
C34_Echo ==
    /\ [](offered.pending =>
             \A i \in DOMAIN offered.choices :
                 Echo_select(offered.choices, offered.decision, i).consequence
                     = select(offered.choices, offered.decision, i))
    /\ [][Select =>
             LET consequence == select(offered.choices, offered.decision, offered'.picked)
             IN  /\ agenda' = consequence.effects
                              \o <<Return(state, actors, consequence)>> \o agenda
                 /\ state' = state /\ actors' = actors
                 /\ immunity' = immunity /\ exc' = exc]_vars

C34_Witness ==
    /\ AtReturn
    /\ offered.announced # <<>>
    /\ offered.picked > 1
    /\ Enacted.chosen = offered.choices[offered.picked]

\* the positions of the Attack processes on the agenda, innermost first
AttackFrames == {i \in DOMAIN agenda : agenda[i].f \in AttackClasses}

\* t is what is left of s when its first elements are taken away
IsSuffix(t, s) ==
    Len(t) <= Len(s) /\ SubSeq(s, Len(s) - Len(t) + 1, Len(s)) = t

\* the main loop of the Attack on top of the agenda is running for a victim who
\* is not the first opponent, and it is the last Attack of the Consequence
LaterVictim ==
    /\ Running
    /\ Head(agenda).f \in AttackClasses /\ Head(agenda).pc = "loop"
    /\ AttackFrames = {1}
    /\ Head(agenda).actor # (state.current_player + 1) % NPlayers

\* C35: the Effects of the selected Consequence are applied in list order, each
\* with everything it starts finished before the next; the Attacks still to run
\* have not started and follow the one that is running in turn order; the setup
\* of an Attack starts with the immunity check of its victim, and every
\* iteration of main is against the victim whose immunity was checked last.
C35_Order ==
    /\ [][Select => SubSeq(agenda', 1, Len(offered.choices[offered'.picked].effects))
                        = offered.choices[offered'.picked].effects]_vars
    /\ [][(agenda # <<>> /\ exc' = "") => IsSuffix(Tail(agenda), agenda')]_vars
    /\ [](\A i, j \in AttackFrames :
              i < j => /\ agenda[j].pc = "call"
                       /\ agenda[j].actor = (agenda[i].actor + (j - i)) % NPlayers
                       /\ \A k \in i .. j : k \in AttackFrames)
    /\ [][(ProcessSetup /\ Head(agenda).f \in AttackClasses) =>
             Head(agenda') = Initiate(Head(agenda).actor, "ImmunityProcedure")]_vars
    /\ [][(ProcessMain /\ Head(agenda).f \in AttackClasses) =>
             /\ proc.cls = Head(agenda).f /\ proc.actor = Head(agenda).actor
             /\ Head(agenda') = main_effect(Head(agenda).f, Head(agenda).actor)]_vars

C35_Witness == LaterVictim /\ proc.iters > 0

\* C36: when an Attack returns, the immunity flag of the instance is False,
\* whether the victim revealed a Moat or not, and the setup of an Attack always
\* starts from a flag that is False.
C36_ImmunityCleared ==
    /\ [](AttackReturned => ~immunity[proc.actor])
    /\ [][(ProcessSetup /\ Head(agenda).f \in AttackClasses) =>
             ~immunity[Head(agenda).actor]]_vars

\* the victim revealed a Moat, the flag was set and the Attack has returned
C36_Witness ==
    /\ AttackReturned
    /\ HasMoat(proc.snap.HAND) /\ proc.iters = 0
    /\ ~immunity[proc.actor]

C36_WitnessNoMoat == AttackReturned /\ ~HasMoat(proc.snap.HAND) /\ proc.iters > 0

\* DECK of a holds fewer than n cards and DISCARD of a holds some
MustReplenish(a, n) == Len(a.DECK) < n /\ a.DISCARD # <<>>

\* a step of draw(state, actor, n) or add_card(state, n)
Draws ==
    /\ CallEffect
    /\ Head(agenda).f \in {"draw", "add_card"}
    /\ Head(agenda).n > 0

\* C37: when draw or prepare_deck needs n cards, DECK holds fewer and DISCARD
\* is not empty, DISCARD is emptied and its cards go under the cards of DECK,
\* which stay on top in their order and are drawn first; draw moves exactly
\* min(n, size of DECK) cards from the top of DECK to the end of HAND.
C37_Replenish ==
    /\ [][Draws =>
             LET actor == IF Head(agenda).f = "draw" THEN Head(agenda).actor
                          ELSE state.current_player
                 n == Head(agenda).n
                 a == actors[actor]
                 b == actors'[actor]
                 size == IF MustReplenish(a, n) THEN Len(a.DECK) + Len(a.DISCARD)
                         ELSE Len(a.DECK)
                 true_n == Min(n, size)
                 drawn == SubSeq(b.HAND, Len(a.HAND) + 1, Len(b.HAND))
             IN  /\ Len(b.HAND) = Len(a.HAND) + true_n
                 /\ SubSeq(b.HAND, 1, Len(a.HAND)) = a.HAND
                 /\ Len(b.DECK) = size - true_n
                 /\ IF MustReplenish(a, n)
                    THEN /\ b.DISCARD = <<>>
                         /\ Range(b.DECK) \cup Range(drawn) = Range(a.DECK) \cup Range(a.DISCARD)
                         /\ SubSeq(drawn, 1, Len(a.DECK)) = Reverse(a.DECK)
                    ELSE /\ b.DISCARD = a.DISCARD
                         /\ b.DECK \o Reverse(drawn) = a.DECK]_vars
    /\ [][(ExpandChoices /\ prepares(Head(agenda).decision) > 0) =>
             LET a == actors[Head(agenda).actor]
                 b == actors'[Head(agenda).actor]
             IN  IF MustReplenish(a, prepares(Head(agenda).decision))
                 THEN /\ b.DISCARD = <<>>
                      /\ Len(b.DECK) = Len(a.DECK) + Len(a.DISCARD)
                      /\ Range(b.DECK) = Range(a.DECK) \cup Range(a.DISCARD)
                      /\ SubSeq(b.DECK, Len(a.DISCARD) + 1, Len(b.DECK)) = a.DECK
                 ELSE b = a]_vars

\* a card played this turn drew every card of a DECK that was not empty and at
\* least one card that was in DISCARD
C37_Witness ==
    /\ exc = ""
    /\ \E i \in DOMAIN agenda :
           /\ agenda[i].f = "return"
           /\ agenda[i].before[1].chosen.cls = "Act"
           /\ LET old == agenda[i].before[1].actors[state.current_player]
                  new == actors[state.current_player]
              IN  /\ old.DECK # <<>> /\ old.DISCARD # <<>>
                  /\ new.DISCARD = <<>>
                  /\ Len(new.HAND) >= Len(old.HAND) + Len(old.DECK)
                  /\ Range(old.DECK) \subseteq Range(new.HAND)

\* the pieces of the Supply that the players hold
Acquired ==
    {x \in UNION {Range(actors[p].DISCARD) \cup Range(actors[p].DECK) \cup Range(actors[p].HAND)
                    : p \in Players} : x.id > 1000}

\* C38: after any gain and buy n_empty_piles is the number of empty Supply
\* piles, and province_pile_empty holds exactly when the Province pile is empty.
C38_PileCounters ==
    /\ state.n_empty_piles = n_empty(state.piles)
    /\ state.province_pile_empty <=> (ProvincePile(state) = <<>>)

\* a gain or buy has emptied a pile that is not the Province pile
C38_Witness ==
    /\ ~hyp.active
    /\ \E x \in Acquired :
           /\ x.type # "Province"
           /\ state.piles[total_order_index(x.type) + 1] = <<>>
    /\ state.n_empty_piles > 0

\* the last Province has been bought
C38_WitnessProvince ==
    /\ ~hyp.active
    /\ \E x \in Acquired : x.type = "Province"
    /\ ProvincePile(state) = <<>> /\ state.province_pile_empty

\* C39: n_action is never negative, and ActionChoices offers an Act only when
\* n_action is at least 1.
C39_ActionsNonNegative ==
    /\ state.n_action >= 0
    /\ (OfferedBy("ActionChoices") /\ \E k \in DOMAIN offered.choices :
                                          offered.choices[k].cls = "Act")
       => state.n_action >= 1

\* the types a choice of Artisan gains and puts on top of DECK
ArtisanPair(c) == <<c.effects[1].piece.type, c.effects[2].piece.type>>

\* C40: ArtisanChoices, with a pile to gain from and cards in HAND, offers
\* Acquisitions that gain to HAND and put a card of HAND on top of DECK, no two
\* with the same pair of gained type and topdecked type.
C40_ArtisanChoices ==
    [][(Resolves("ArtisanChoices") /\ actors[Head(agenda).actor].HAND # <<>>
        /\ \E i \in DOMAIN state.piles :
               state.piles[i] # <<>> /\ cost(Last(state.piles[i]).type) <= 5) =>
          /\ offered'.pending /\ offered'.decision = "ArtisanChoices"
          /\ \A k \in DOMAIN offered'.choices :
                 /\ offered'.choices[k].cls = "Acquisition"
                 /\ Len(offered'.choices[k].effects) = 2
                 /\ offered'.choices[k].effects[1].f = "gain"
                 /\ offered'.choices[k].effects[2].f = "topdeck"
          /\ \A k, l \in DOMAIN offered'.choices :
                 ArtisanPair(offered'.choices[k]) = ArtisanPair(offered'.choices[l])
                     => k = l]_vars

====
